---- MODULE Spec2Model ----
(***************************************************************************)
(* A model of the remote WebDriver client of src/remote.go: one            *)
(* remoteWebDriver shared by concurrent callers, the command executor      *)
(* (execute) with its cancellation guard, send, NewSession and Quit.       *)
(*                                                                         *)
(* Every caller (goroutine) has a call stack of frames; the frame on top   *)
(* is the function that runs.  An action runs a goroutine from one access  *)
(* of the shared driver state to the next: wd.ctx and wd.id are protected  *)
(* by no lock, so every read and write of them is a point where another    *)
(* goroutine can come in between; wd.haveQuit is only accessed under       *)
(* haveQuitMu.  Steps that touch no shared state (returns, send's decode)  *)
(* are taken together with the shared access that precedes them.           *)
(*                                                                         *)
(* Scheduling (spec section 5): the caller serializes the commands of one  *)
(* session, so one goroutine issues commands, NewSession and Quit, while   *)
(* Quit can also be called from other goroutines (a deferred cleanup).     *)
(* SetContext and the cancellation of a context can happen at any time.    *)
(* No method reads its ctx parameter, so frames do not carry it.           *)
(*                                                                         *)
(* The server and the network are the environment: a request in flight is  *)
(* answered by any reply of a bounded set, fails in transport, or is       *)
(* aborted by net/http when the context bound to it is done.  URLs are     *)
(* taken to be well formed (http.NewRequest succeeds).                     *)
(***************************************************************************)
EXTENDS Integers, Sequences, FiniteSets, TLC

\* ------------------------------------------------------------------ bounds
MaxOps == 3          \* calls made on the driver in one behaviour
NTokens == 1         \* cancellable contexts the caller can install
NSessions == 2       \* distinct session ids the server hands out

\* --------------------------------------------------------------- constants
SUCCESS == 0         \* envelope status of a successful reply
NoSuchElement == 7   \* a catalogued failing envelope status
HTTPOk == 200
HTTPError == 400     \* replies with StatusCode >= 400 are failures

Procs == {"g1", "g2"}            \* the goroutines using the driver
Commanders == {"g1"}             \* ... those that issue commands and NewSession

Nil == -1                         \* the nil context (zero value of wd.ctx)
Background == 0                   \* context.Background(): never done
Tokens == 1 .. NTokens            \* cancellable contexts
Ctxs == {Background} \cup Tokens  \* what a caller passes as a context

NoId == 0                         \* the empty session id ""
SessIds == 1 .. NSessions

\* error values
ErrNil == "nil"
ErrCanceled == "cancelled"              \* var ErrCanceled
ErrCtxAborted == "context canceled"     \* httpClient.Do/ReadAll, context done
ErrTransport == "transport"             \* any other error of Do/ReadAll
ErrProtocol == "protocol"               \* pE(reply)
ErrBadStatus == "Bad server reply status"
ErrDecode == "decode"                   \* json.Unmarshal failed

VARIABLES
    wd,           \* the remoteWebDriver: [id, ctx, haveQuit]
    haveQuitMu,   \* holder of wd.haveQuitMu: a goroutine, or "free"
    fired,        \* the cancellable contexts whose Done channel is closed
    call,         \* call[p]: the call stack of goroutine p (bottom first)
    avail,        \* the caller holds a reference to the driver
    panicked,     \* "none", or the panic that ended the process
    net,          \* session deletes handed to the network: [del, delFor]
    ops,          \* calls made so far
    hist,         \* history: [quitReturned, ctxRaced, installed, quitBy]
    rx,           \* the exchange of one command, followed in detail (ReplySpec)
    cl            \* drivers, element handles and the last command (ElemSpec)

vars == <<wd, haveQuitMu, fired, call, avail, panicked, net, ops, hist, rx, cl>>


\* ------------------------------------------------------------------ frames
\* One activation record; every frame carries every field so that frames of
\* different functions can share a stack.  The fields from seenFired on are
\* history: they record what the call observed and are read by no action.
\* nreq counts the requests the call handed to the network itself.
Frame0 ==
    [fn |-> "", pc |-> "", kind |-> "", url |-> NoId,
     req |-> Nil, sent |-> FALSE, nreq |-> 0, buf |-> "nil", sid |-> NoId,
     err |-> ErrNil, err0 |-> ErrNil, ctor |-> FALSE, ret |-> NoId, first |-> FALSE,
     late |-> FALSE, seenFired |-> FALSE, seenQuit |-> FALSE, afterFire |-> FALSE,
     inflightFire |-> FALSE, idAtCall |-> NoId,
     gq |-> "none", glate |-> FALSE, gsent |-> FALSE, gerr |-> ErrNil]

Depth(p) == Len(call[p])
Top(p) == call[p][Depth(p)]
Bottom(p) == call[p][1]
Idle(p) == call[p] = <<>>
Running(p) == ~Idle(p) /\ panicked = "none"
At(p, fn, pc) == Running(p) /\ Top(p).fn = fn /\ Top(p).pc = pc

SetTop(st, f) == [st EXCEPT ![Len(st)] = f]
Push(st, f) == Append(st, f)
Pop(st) == SubSeq(st, 1, Len(st) - 1)

\* ------------------------------------------------------- the server's reply
\* A reply: HTTP status code, whether Content-Type begins with
\* application/json, and the body: empty, not JSON ("junk"), or an envelope.
Body(form, sid, status) == [form |-> form, SessionId |-> sid, Status |-> status]
Bodies(kind, sid) ==
    {Body("empty", NoId, SUCCESS), Body("junk", NoId, SUCCESS), Body("env", sid, NoSuchElement)}
    \cup {Body("env", s, SUCCESS) : s \in (IF kind = "NEW" THEN SessIds ELSE {sid})}
Replies(kind, sid) ==
    {[code |-> c, json |-> j, body |-> b] : c \in {HTTPOk, HTTPError}, j \in BOOLEAN, b \in Bodies(kind, sid)}

\* json.Unmarshal(buf, reply) succeeds
Parses(body) == body.form = "env"

\* execute, lines 178-208: the classification of a reply into (buf, err)
Classify(rep) ==
    IF rep.code >= HTTPError
    THEN IF Parses(rep.body)
         THEN [buf |-> "nil", sid |-> NoId, err |-> ErrProtocol]
         ELSE [buf |-> "nil", sid |-> NoId, err |-> ErrBadStatus]
    ELSE IF rep.json
         THEN IF ~Parses(rep.body)
              THEN [buf |-> "nil", sid |-> NoId, err |-> ErrDecode]
              ELSE IF rep.body.Status # SUCCESS
                   THEN [buf |-> "nil", sid |-> NoId, err |-> ErrProtocol]
                   ELSE [buf |-> "env", sid |-> rep.body.SessionId, err |-> ErrNil]
         ELSE [buf |-> rep.body.form, sid |-> rep.body.SessionId, err |-> ErrNil]

\* send, lines 79-87: (r, err) from execute's (buf, err); r is "nil" or "env"
Send(x) ==
    IF x.err # ErrNil THEN [r |-> "nil", sid |-> NoId, err |-> x.err]
    ELSE IF x.buf \in {"nil", "empty"} THEN [r |-> "nil", sid |-> NoId, err |-> ErrNil]
    ELSE IF x.buf = "junk" THEN [r |-> "nil", sid |-> NoId, err |-> ErrDecode]
    ELSE [r |-> "env", sid |-> x.sid, err |-> ErrNil]

\* ----------------------------------------------------- pieces of the code
\* <-c.Done() is ready (lines 99, 107); c is not nil
NeverDone(c) == FALSE
Done(c) == c \in fired

\* the context the request is bound to, line 133
WithContext(c) == c

\* the value Quit stores in wd.haveQuit, line 412
QuitFlagUnset == FALSE
QuitFlag == TRUE

\* the holder of wd.haveQuitMu from Quit's Lock (line 406) to its deferred
\* Unlock (line 407), which runs when Quit returns: the goroutine p
UnlockedAtOnce(p) == "free"
LockedBy(p) == p

\* the context Quit installs before its delete, line 416
QuitKeepCtx(c) == c
QuitCtx(c) == Background

\* the id Quit leaves on the driver, lines 418-420
QuitIdAlwaysCleared(id, err) == NoId
QuitId(id, err) == IF err = ErrNil THEN NoId ELSE id

\* where execute goes on when Do or ReadAll failed: it returns the error,
\* lines 136-138 and 148-150
RetryAfterTransportError == "do"
AfterTransportError == "post"

\* the id NewSession stores, line 353
NewSessionId(id, sid) == sid

\* the caller's installed token has fired (and the caller installed no other)
TokFired == hist.installed \in fired

\* a fresh call of Quit
QuitFrame == [Frame0 EXCEPT !.fn = "Quit", !.pc = "lock", !.late = hist.quitReturned]

\* execute, lines 97-104: a fresh call of execute on top of the stack st, run
\* up to the check before sending; wd.ctx is not nil
EnterExecute(st, kind, sid) ==
    LET f == [Frame0 EXCEPT !.fn = "execute", !.kind = kind, !.url = sid]
    IN IF Done(wd.ctx)
       THEN Push(Push(st, [f EXCEPT !.err = ErrCanceled, !.pc = "guarded"]), QuitFrame)
       ELSE Push(st, [f EXCEPT !.pc = "do"])

\* what execute returns to its caller
ExecResult(f) ==
    [buf |-> f.buf, sid |-> f.sid, err |-> f.err, err0 |-> f.err0, sent |-> f.sent,
     nreq |-> f.nreq]

\* voidCommand (lines 292-301) or NewSession (350-352) when execute, through
\* send, returned x with an error or, for a command, at all
OpDone(f, x) ==
    LET s == Send(x)
    IN [f EXCEPT !.err = s.err, !.err0 = x.err0, !.sent = x.sent, !.buf = s.r,
                 !.sid = s.sid, !.ret = NoId, !.pc = "done", !.nreq = @ + x.nreq]

\* lines 101-102, 109-110: the command's frame when the Quit its guard called
\* has returned: execute (frame e) returns ErrCanceled; q is the Quit's frame
OpGuarded(f, e, q) ==
    [OpDone(f, ExecResult(e)) EXCEPT
        !.gq = IF q.first THEN "first" ELSE "fast",
        !.glate = q.late, !.gsent = q.sent, !.gerr = q.err]

\* ------------------------------------------- the reply of a command in detail
\* The server's answer as execute reads it: the HTTP status code, the
\* Content-Type header and the body.  A body is empty, bytes that are no JSON
\* ("text"), the JSON null, or a JSON object, which decodes as a reply
\* envelope with a Status and a Value.
jsonMIMEType == "application/json"
ContentTypes == {"", jsonMIMEType, "application/json; charset=utf-8", "text/plain"}

\* strings.HasPrefix(res.Header.Get("Content-Type"), jsonMIMEType), line 192
HasJSONPrefix(ct) == ct \in {jsonMIMEType, "application/json; charset=utf-8"}

HTTPCodes == {HTTPOk, 399, HTTPError, 500}

\* Errors returned by Selenium server, lines 31-51
errorCodes ==
    (7 :> "no such element") @@ (8 :> "no such frame") @@ (9 :> "unknown command") @@
    (10 :> "stale element reference") @@ (11 :> "element not visible") @@
    (12 :> "invalid element state") @@ (13 :> "unknown error") @@
    (15 :> "element is not selectable") @@ (17 :> "javascript error") @@
    (19 :> "xpath lookup error") @@ (21 :> "timeout") @@ (23 :> "no such window") @@
    (24 :> "invalid cookie domain") @@ (25 :> "unable to set cookie") @@
    (26 :> "unexpected alert open") @@ (27 :> "no alert open") @@
    (28 :> "script timeout") @@ (29 :> "invalid element coordinates") @@
    (32 :> "invalid selector")

\* envelope statuses the server answers with: success, every catalogued code,
\* and codes the catalog does not have
Uncatalogued == {14, 33, 99}
Statuses == {SUCCESS} \cup DOMAIN errorCodes \cup Uncatalogued

\* the backend's own error texts
Backends == {"", "boom"}

\* The "message" member of an envelope value, as json.Unmarshal finds it:
\* absent, not a string, the empty string, a string that is no JSON ("text"),
\* or a string holding a JSON object, with or without an errorMessage member
\* (has); errorMessage is the member's text.
Message(form, has, errorMessage) == [form |-> form, has |-> has, errorMessage |-> errorMessage]
NoMessage == Message("absent", FALSE, "")
Messages ==
    {NoMessage, Message("nonstring", FALSE, ""), Message("empty", FALSE, ""),
     Message("text", FALSE, ""), Message("json", FALSE, "")}
    \cup {Message("json", TRUE, b) : b \in Backends}

\* The Value of an envelope (json.RawMessage): missing from the envelope, the
\* JSON null, a JSON string (str), a JSON object (with its message member and
\* its ELEMENT member ref: absent, a string with the element id, or not a
\* string), a JSON array (items) or the JSON true (form "bool").  An object
\* can be a cookie, with its name member and its expiry member (absent, null,
\* a number given in tenths, a string with a number or with something else, or
\* true), or a size, with its width and height members.  A JSON number
\* (form "number") has the value num.
NoRef == [form |-> "absent", id |-> ""]
NoExpiry == [form |-> "absent", tenths |-> 0]
Value(form, str, message) ==
    [form |-> form, str |-> str, message |-> message, ref |-> NoRef, items |-> <<>>,
     name |-> "", expiry |-> NoExpiry, width |-> 0, height |-> 0, num |-> 0]
Values ==
    {Value("missing", "", NoMessage), Value("null", "", NoMessage), Value("string", "v", NoMessage)}
    \cup {Value("object", "", m) : m \in Messages}

ReplyBody(form, status, value) == [form |-> form, Status |-> status, Value |-> value]
ReplyBodies ==
    {ReplyBody(f, SUCCESS, Value("missing", "", NoMessage)) : f \in {"empty", "text", "null"}}
    \cup {ReplyBody("object", st, v) : st \in Statuses, v \in Values}

HTTPReplies ==
    {[code |-> c, ctype |-> ct, body |-> b] : c \in HTTPCodes, ct \in ContentTypes, b \in ReplyBodies}

\* json.Unmarshal(buf, reply) into a reply that was allocated (lines 179-180,
\* 193-194): empty input and non-JSON input are errors, null changes nothing
UnmarshalReply(body) ==
    [ok |-> body.form \in {"null", "object"}, Status |-> body.Status, Value |-> body.Value]

\* an error value: its kind and its text.  A text is a head, a number printed
\* in decimal after it (NoNum: none), and, when tail is set, the separator
\* " - " followed by the Go-quoted backend message.
NoNum == -1
ErrorText(head, num, tail, backend) == [head |-> head, num |-> num, tail |-> tail, backend |-> backend]
Error(kind, text) == [kind |-> kind, text |-> text]
NoError == Error("nil", ErrorText("", NoNum, FALSE, ""))
DecodeError == Error("decode", ErrorText("", NoNum, FALSE, ""))
TransportError == Error("transport", ErrorText("", NoNum, FALSE, ""))

\* errors.New(fmt.Sprintf("Bad server reply status: %s", res.Status)), line 182;
\* the status line is stood for by its code
BadStatus(code) == Error("badstatus", ErrorText("Bad server reply status: ", code, FALSE, ""))

\* json.Unmarshal([]byte(r.Value), sr), line 158: sr.Message, "" unless the
\* value is an object with a string message
UnmarshalValue(v) ==
    [ok |-> v.form = "null" \/ (v.form = "object" /\ v.message.form # "nonstring"),
     Message |-> IF v.form = "object" /\ v.message.form \in {"text", "json"}
                 THEN v.message ELSE Message("empty", FALSE, "")]

\* json.Unmarshal([]byte(sr.Message), rm), line 163: rm.ErrorMessage
UnmarshalMessage(m) ==
    [ok |-> m.form = "json",
     ErrorMessage |-> IF m.form = "json" /\ m.has THEN m.errorMessage ELSE ""]

\* lines 156-168: the backend message recovered from the value, "" when either
\* level does not decode
BackendError(v) ==
    LET sr == UnmarshalValue(v)
        rm == UnmarshalMessage(sr.Message)
    IN IF sr.ok /\ sr.Message.form # "empty" /\ rm.ok THEN rm.ErrorMessage ELSE ""

\* lines 170-173: the catalog message of a status
CatalogOnly(status) ==
    IF status \in DOMAIN errorCodes THEN ErrorText(errorCodes[status], NoNum, FALSE, "")
    ELSE ErrorText(errorCodes[13], NoNum, FALSE, "")
CatalogMessage(status) ==
    IF status \in DOMAIN errorCodes THEN ErrorText(errorCodes[status], NoNum, FALSE, "")
    ELSE ErrorText("unknown error - ", status, FALSE, "")

\* fmt.Errorf("%v%v", message, " - "+fmt.Sprintf("%q", backendError)), line 175
ErrorfMessageOnly(message, backendError) == message
Errorf(message, backendError) == [message EXCEPT !.tail = TRUE, !.backend = backendError]

\* pE, lines 155-176: the error of a failing envelope
pEStrict(r) ==
    LET sr == UnmarshalValue(r.Value)
    IN IF ~sr.ok \/ (sr.Message.form # "empty" /\ ~UnmarshalMessage(sr.Message).ok)
       THEN DecodeError
       ELSE Error("protocol", Errorf(CatalogMessage(r.Status), BackendError(r.Value)))
pE(r) == Error("protocol", Errorf(CatalogMessage(r.Status), BackendError(r.Value)))

\* res.StatusCode >= 400, line 178
HTTPFailedAbove(code) == code > HTTPError
HTTPFailed(code) == code >= HTTPError

\* reply.Status != SUCCESS, line 199
EnvelopeNeverFailed(status) == FALSE
EnvelopeFailed(status) == status # SUCCESS

\* execute, lines 178-208: (buf, err) for a reply; buf is the body read, or nil
NilBuf == ReplyBody("nil", SUCCESS, Value("missing", "", NoMessage))
HandleReply(rep) ==
    LET reply == UnmarshalReply(rep.body)
    IN IF HTTPFailed(rep.code)
       THEN IF ~reply.ok
            THEN [buf |-> NilBuf, err |-> BadStatus(rep.code)]
            ELSE [buf |-> NilBuf, err |-> pE(reply)]
       ELSE IF HasJSONPrefix(rep.ctype)
            THEN IF ~reply.ok
                 THEN [buf |-> NilBuf, err |-> DecodeError]
                 ELSE IF EnvelopeFailed(reply.Status)
                      THEN [buf |-> NilBuf, err |-> pE(reply)]
                      ELSE [buf |-> rep.body, err |-> NoError]
            ELSE [buf |-> rep.body, err |-> NoError]

\* send, lines 79-87: (r, err) from execute's (buf, err); r is a *reply: nil,
\* or the envelope json.Unmarshal(buf, &r) allocated
NilReply == [nil |-> TRUE, Status |-> SUCCESS, Value |-> Value("missing", "", NoMessage)]
SendReply(x) ==
    IF x.err # NoError THEN [r |-> NilReply, err |-> x.err]
    ELSE IF x.buf.form \in {"nil", "empty"} THEN [r |-> NilReply, err |-> NoError]
    ELSE IF x.buf.form = "text" THEN [r |-> NilReply, err |-> DecodeError]
    ELSE IF x.buf.form = "null" THEN [r |-> NilReply, err |-> NoError]
    ELSE [r |-> [nil |-> FALSE, Status |-> x.buf.Status, Value |-> x.buf.Value],
          err |-> NoError]

\* the method of each shape of command: stringCommand (line 286), voidCommand
\* (line 298), and the commands that call execute themselves (lines 522-636)
CmdKinds == {"string", "void", "delete"}
Method(kind) == CASE kind = "string" -> "GET" [] kind = "void" -> "POST" [] OTHER -> "DELETE"

\* the headers execute puts on a request, lines 122-125
HeadersAlwaysContentType(method) == {<<"Accept", jsonMIMEType>>, <<"Content-Type", jsonMIMEType>>}
Headers(method) ==
    {<<"Accept", jsonMIMEType>>}
    \cup (IF method = "POST" THEN {<<"Content-Type", jsonMIMEType>>} ELSE {})

\* r.readValue(&v) with v a string, lines 250-252 and 287
ReadString(v) ==
    [ok |-> v.form \in {"null", "string"}, v |-> IF v.form = "string" THEN v.str ELSE ""]

\* what a command of each shape returns for execute's (buf, err): the error,
\* the value that reaches the caller (val, when has), or a nil dereference
CommandResult(kind, x) ==
    LET s == SendReply(x)
        none == [err |-> NoError, has |-> FALSE, val |-> "", panic |-> FALSE]
    IN IF kind = "delete" THEN [none EXCEPT !.err = x.err]
       ELSE IF kind = "void" \/ s.err # NoError THEN [none EXCEPT !.err = s.err]
       ELSE IF s.r.nil THEN [none EXCEPT !.panic = TRUE]
       ELSE LET v == ReadString(s.r.Value)
            IN IF v.ok THEN [none EXCEPT !.has = TRUE, !.val = v.v]
               ELSE [none EXCEPT !.err = DecodeError]

\* the exchange of one command (rx) when no command is in progress
NoReply == [code |-> 0, ctype |-> "", body |-> NilBuf]
RxIdle ==
    [pc |-> "idle", kind |-> "", method |-> "", hdr |-> {}, via |-> 0, hops |-> <<>>,
     rep |-> NoReply, buf |-> NilBuf, err |-> NoError,
     res |-> [err |-> NoError, has |-> FALSE, val |-> "", panic |-> FALSE]]

\* Drivers and their element handles.  A handle is a remoteWE (lines 743-746):
\* the driver that owns it and the server's opaque id; issued, the id of the
\* session the handle was found under, is history.
Drivers == {"wd1", "wd2"}
ElemIds == {"e1", "e2"}
Handle(parent, id, issued) == [parent |-> parent, id |-> id, issued |-> issued]
NoHandle == Handle("", "", NoId)

\* a URL of the driver: wd.url(template, wd.id, ...) with the session id, the
\* element id or the window name (if the template has one) and the rest of
\* the path
URL(session, elem, path) == [session |-> session, elem |-> elem, path |-> path]

\* the command in progress and its outcome; none
\* (text: the URL as wd.url builds it, piece by piece)
\* (args: the arguments the caller passed; params: the parameters sent, the
\* element member of MoveTo's, the args member of a script's and the width
\* and height of ResizeWindow's)
\* res: the value returned, has when it is not the zero value of its type
Size(Width, Height) == [Width |-> Width, Height |-> Height]
WireSize(width, height) == [width |-> width, height |-> height]
\* (nullArgs: the args member is the JSON null, not an array)
NoParams == [element |-> "", args |-> <<>>, nullArgs |-> FALSE, size |-> WireSize(0, 0)]
\* (any: a value decoded into an interface{}: its Go type, and the number or
\* the string it is)
NoAny == [t |-> "nil", num |-> 0, str |-> ""]
NoRes == [has |-> FALSE, cookies |-> <<>>, size |-> Size(0, 0), any |-> NoAny]
NoLast ==
    [cmd |-> "", by |-> "", h |-> NoHandle, url |-> URL(NoId, "", ""), args |-> <<>>,
     absent |-> FALSE, params |-> NoParams, rep |-> NoReply, handles |-> <<>>, res |-> NoRes,
     err |-> NoError, panic |-> FALSE, text |-> <<>>]

\* the windows of the server: the size of each window of each session, and
\* the window that "current" stands for
WinHandles == {"w1", "w2"}
Sizes == {Size(400, 400), Size(800, 600)}
Resolve(name) == IF name = "current" THEN "w1" ELSE name
NoResize == [by |-> "", url |-> URL(NoId, "", ""), to |-> Size(0, 0)]

\* A call on a driver: the method, the context passed to it, where it is, and
\* what it returns.  tok (history): wd.ctx when the call was made; tore: the
\* call's guard started the teardown; req: the request the call sent last.
NoCall ==
    [fn |-> "", arg |-> Background, pc |-> "idle", tok |-> Background, err |-> ErrNil,
     tore |-> FALSE, req |-> <<>>]
\* the driver a caller holds (have), lines 59-68; set (history): SetContext
\* has been called on it
NoDriver ==
    [have |-> FALSE, ctx |-> Background, haveQuit |-> FALSE, set |-> FALSE, cur |-> NoCall]

\* id: the session id of each driver; held: the handle the caller keeps of
\* each driver; win: the server's windows; last: the command in progress;
\* prev: the command before it, if it was a ResizeWindow that succeeded
\* The commands one caller issues on one session, numbered as they are called.
\* n: commands called; pc: where the command in progress is; wire: the
\* requests handed to the network and not yet at the server; srv: the requests
\* the server has handled, in its order; back: the reply on its way (to: the
\* command, seen: what the server had handled when it replied); ret: what
\* each command returned, the reply's seen if it got one
Range(seq) == {seq[i] : i \in 1 .. Len(seq)}
NoBack == [to |-> 0, seen |-> <<>>]
NoOrd == [n |-> 0, pc |-> "idle", wire |-> {}, srv |-> <<>>, back |-> NoBack, ret |-> <<>>]

\* The reader Screenshot returned.  src (history): the string of the reply;
\* rest: the characters not decoded yet; pend: the bytes decoded and not
\* delivered yet (d.out); got (history): the bytes delivered; end: the error
\* the reader has met (d.err; "": none); n, rerr: what the last Read returned;
\* err: the error of Screenshot
NoShot ==
    [open |-> FALSE, src |-> <<>>, rest |-> <<>>, pend |-> <<>>, got |-> <<>>, end |-> "",
     n |-> 0, rerr |-> "", err |-> NoError]

\* dr: the fields of each driver besides its id, and the call in progress on
\* it; by: the driver whose call took the last step; ord: the commands of one
\* caller on one session; shot: the reader of a screenshot
ClInit ==
    [id |-> [d \in Drivers |-> NoId], held |-> [d \in Drivers |-> NoHandle],
     win |-> [s \in SessIds, w \in WinHandles |-> WireSize(800, 600)],
     last |-> NoLast, prev |-> NoResize,
     dr |-> [d \in Drivers |-> NoDriver], by |-> "", ord |-> NoOrd, shot |-> NoShot]


\* --------------------------------------------------------------- the state
InitLiteral ==
    \* &remoteWebDriver{capabilities: caps, executor: e}: ctx is nil
    /\ wd = [id |-> NoId, ctx |-> Nil, haveQuit |-> FALSE]
    /\ call = [p \in Procs |-> <<>>]
    /\ avail = TRUE
    /\ ops = 0

InitNewRemote ==
    \* NewRemote, lines 269-276: the driver is built with context.Background()
    \* and NewSession is called on it; the caller gets the driver once
    \* NewSession has succeeded
    /\ wd = [id |-> NoId, ctx |-> Background, haveQuit |-> FALSE]
    /\ call = [p \in Procs |->
                 IF p = "g1"
                 THEN <<[Frame0 EXCEPT !.fn = "NewSession", !.pc = "ret", !.ctor = TRUE],
                        [Frame0 EXCEPT !.fn = "execute", !.kind = "NEW", !.pc = "do"]>>
                 ELSE <<>>]
    /\ avail = FALSE
    /\ ops = 1

Init ==
    /\ haveQuitMu = "free"
    /\ fired = {}
    /\ panicked = "none"
    /\ net = [del |-> 0, delFor |-> {}]
    /\ hist = [quitReturned |-> FALSE, ctxRaced |-> FALSE, installed |-> Nil,
               quitBy |-> "none"]
    /\ rx = RxIdle
    /\ cl = ClInit
    /\ (InitLiteral \/ InitNewRemote)

\* ------------------------------------------------------------- environment
\* SetContext, lines 70-72
SetContext(c) ==
    /\ avail /\ panicked = "none" /\ ops < MaxOps
    /\ wd' = [wd EXCEPT !.ctx = c]
    /\ ops' = ops + 1
    /\ hist' = [hist EXCEPT !.installed = c,
                            !.ctxRaced = @ \/ haveQuitMu # "free"]
    \* a command in flight is no longer a command of the token that fired
    /\ call' = [p \in Procs |->
                  IF call[p] = <<>> THEN <<>>
                  ELSE [call[p] EXCEPT ![1] = [@ EXCEPT !.inflightFire = FALSE]]]
    /\ UNCHANGED <<haveQuitMu, fired, avail, panicked, net, rx, cl>>

\* the command's own execute (not the one of a Quit the guard triggered)
Own(p) == Depth(p) = 2 /\ Bottom(p).fn \in {"cmd", "NewSession"}

\* the caller cancels a context it created
Cancel(t) ==
    /\ panicked = "none"
    /\ t \notin fired
    /\ fired' = fired \cup {t}
    \* the commands whose own request is in flight when the driver's token fires
    /\ call' = [p \in Procs |->
                  IF Own(p) /\ Top(p).pc = "wait" /\ wd.ctx = t
                  THEN [call[p] EXCEPT ![1] = [@ EXCEPT !.inflightFire = TRUE]]
                  ELSE call[p]]
    /\ UNCHANGED <<wd, haveQuitMu, avail, panicked, net, ops, hist, rx, cl>>

\* ------------------------------------------------------------------- calls
CanCall(p) == Idle(p) /\ avail /\ panicked = "none" /\ ops < MaxOps

\* the frame of a command or NewSession at its call
OpFrame(fn) ==
    [Frame0 EXCEPT !.fn = fn, !.pc = "ret", !.seenFired = wd.ctx \in fired,
                   !.seenQuit = wd.haveQuit, !.afterFire = TokFired]

\* a command of the driver (voidCommand, lines 292-301): builds the URL from
\* wd.id and calls send, which calls execute, which checks wd.ctx (98-104)
CallCmd(p) ==
    /\ CanCall(p)
    /\ IF wd.ctx = Nil
       THEN \* wd.ctx.Done() on a nil interface
            /\ panicked' = "nil context"
            /\ call' = [call EXCEPT ![p] = <<[OpFrame("cmd") EXCEPT !.pc = "panic"]>>]
       ELSE /\ call' = [call EXCEPT ![p] = EnterExecute(<<OpFrame("cmd")>>, "CMD", wd.id)]
            /\ UNCHANGED panicked
    /\ ops' = ops + 1
    /\ UNCHANGED <<wd, haveQuitMu, fired, avail, net, hist, rx, cl>>

\* NewSession, lines 338-349, up to the check of execute
CallNewSession(p) ==
    /\ CanCall(p)
    /\ IF wd.ctx = Nil
       THEN \* wd.ctx.Done() on a nil interface
            /\ panicked' = "nil context"
            /\ call' = [call EXCEPT ![p] = <<[OpFrame("NewSession") EXCEPT !.pc = "panic"]>>]
       ELSE /\ call' = [call EXCEPT ![p] = EnterExecute(<<OpFrame("NewSession")>>, "NEW", NoId)]
            /\ UNCHANGED panicked
    /\ ops' = ops + 1
    /\ UNCHANGED <<wd, haveQuitMu, fired, avail, net, hist, rx, cl>>

\* Quit called by the user; it waits for the lock (line 406)
CallQuit(p) ==
    /\ CanCall(p)
    /\ call' = [call EXCEPT ![p] =
                  <<[QuitFrame EXCEPT !.idAtCall = wd.id, !.seenFired = wd.ctx \in fired,
                                      !.seenQuit = wd.haveQuit]>>]
    /\ ops' = ops + 1
    /\ UNCHANGED <<wd, haveQuitMu, fired, avail, panicked, net, hist, rx, cl>>

\* the call has returned to the user
Return(p) ==
    /\ Running(p) /\ Depth(p) = 1 /\ Top(p).pc = "done"
    /\ call' = [call EXCEPT ![p] = <<>>]
    /\ UNCHANGED <<wd, haveQuitMu, fired, avail, panicked, net, ops, hist, rx, cl>>

\* -------------------------------------------------------------------- Quit
\* lines 406-410: the lock is taken and the teardown was issued already:
\* Quit returns nil (and unlocks); a guard's execute then returns ErrCanceled
QuitAgain(p) ==
    /\ At(p, "Quit", "lock")
    /\ haveQuitMu = "free"
    /\ wd.haveQuit
    /\ call' = [call EXCEPT ![p] =
                  IF Depth(p) = 1
                  THEN <<[Top(p) EXCEPT !.err = ErrNil, !.pc = "done"]>>
                  ELSE <<OpGuarded(call[p][1], call[p][2], Top(p))>>]
    /\ hist' = [hist EXCEPT !.quitReturned = TRUE]
    /\ UNCHANGED <<wd, haveQuitMu, fired, avail, panicked, net, ops, rx, cl>>

\* lines 406-416: the lock is taken, the flag set, the context replaced
QuitFirst(p) ==
    /\ At(p, "Quit", "lock")
    /\ haveQuitMu = "free"
    /\ ~wd.haveQuit
    /\ haveQuitMu' = LockedBy(p)
    /\ wd' = [wd EXCEPT !.haveQuit = QuitFlag, !.ctx = QuitCtx(@)]
    /\ call' = [call EXCEPT ![p] = SetTop(@, [Top(p) EXCEPT !.first = TRUE, !.pc = "url"])]
    /\ hist' = [hist EXCEPT !.quitBy = IF Depth(p) = 1 THEN "user" ELSE "guard"]
    /\ UNCHANGED <<fired, avail, panicked, net, ops, rx, cl>>

\* line 418: the URL is built from wd.id and execute is called (lines 97-104)
QuitExecute(p) ==
    /\ At(p, "Quit", "url")
    /\ IF wd.ctx = Nil
       THEN \* wd.ctx.Done() on a nil interface
            /\ panicked' = "nil context"
            /\ call' = [call EXCEPT ![p] = SetTop(@, [Top(p) EXCEPT !.pc = "panic"])]
       ELSE /\ call' = [call EXCEPT ![p] =
                          EnterExecute(SetTop(@, [Top(p) EXCEPT !.url = wd.id, !.pc = "ret"]),
                                       "DELETE", wd.id)]
            /\ UNCHANGED panicked
    /\ UNCHANGED <<wd, haveQuitMu, fired, avail, net, ops, hist, rx, cl>>

\* ----------------------------------------------------------------- execute
\* lines 118-138: the request is bound to wd.ctx and handed to httpClient.Do;
\* a request whose context is done already fails without being sent
ExecuteDo(p) ==
    /\ At(p, "execute", "do")
    /\ LET c == WithContext(wd.ctx)
           f == Top(p)
       IN IF Done(c)
          THEN /\ call' = [call EXCEPT ![p] =
                             SetTop(@, [f EXCEPT !.req = c, !.err = ErrCtxAborted,
                                                 !.err0 = ErrCtxAborted, !.pc = "post"])]
               /\ UNCHANGED net
          ELSE /\ call' = [call EXCEPT ![p] =
                             SetTop(@, [f EXCEPT !.req = c, !.sent = TRUE, !.nreq = @ + 1,
                                                 !.pc = "wait"])]
               /\ net' = IF f.kind = "DELETE"
                         THEN [del |-> net.del + 1, delFor |-> net.delFor \cup {f.url}]
                         ELSE net
    /\ UNCHANGED <<wd, haveQuitMu, fired, avail, panicked, ops, hist, rx, cl>>

\* lines 135-208: the server's reply arrives and is classified
ExecuteReply(p) ==
    /\ At(p, "execute", "wait")
    /\ \E rep \in Replies(Top(p).kind, Top(p).url) :
         LET x == Classify(rep)
         IN call' = [call EXCEPT ![p] =
                       SetTop(@, [Top(p) EXCEPT !.buf = x.buf, !.sid = x.sid, !.err = x.err,
                                                !.err0 = x.err, !.pc = "post"])]
    /\ UNCHANGED <<wd, haveQuitMu, fired, avail, panicked, net, ops, hist, rx, cl>>

\* lines 135-150: Do or ReadAll fails (connection, TLS, timeout, redirects)
ExecuteTransportError(p) ==
    /\ At(p, "execute", "wait")
    /\ call' = [call EXCEPT ![p] =
                  SetTop(@, [Top(p) EXCEPT !.err = ErrTransport, !.err0 = ErrTransport,
                                           !.pc = AfterTransportError])]
    /\ UNCHANGED <<wd, haveQuitMu, fired, avail, panicked, net, ops, hist, rx, cl>>

\* lines 133-138: the context bound to the request is done while the request
\* is in flight: net/http aborts the transfer
ExecuteAborted(p) ==
    /\ At(p, "execute", "wait")
    /\ Done(Top(p).req)
    /\ call' = [call EXCEPT ![p] =
                  SetTop(@, [Top(p) EXCEPT !.err = ErrCtxAborted, !.err0 = ErrCtxAborted,
                                           !.pc = "post"])]
    /\ UNCHANGED <<wd, haveQuitMu, fired, avail, panicked, net, ops, hist, rx, cl>>

\* lines 105-113: the deferred check finds the context done and calls Quit
ExecuteCanceled(p) ==
    /\ At(p, "execute", "post")
    /\ Done(wd.ctx)
    /\ call' = [call EXCEPT ![p] =
                  Push(SetTop(@, [Top(p) EXCEPT !.err = ErrCanceled, !.pc = "guarded"]),
                       QuitFrame)]
    /\ UNCHANGED <<wd, haveQuitMu, fired, avail, panicked, net, ops, hist, rx, cl>>

\* execute is about to return to fn: the deferred check (105-113) passes
Returning(p, fn) ==
    /\ At(p, "execute", "post")
    /\ ~Done(wd.ctx)
    /\ call[p][Depth(p) - 1].fn = fn

\* a command: execute returns, send decodes, the command returns
CmdReturn(p) ==
    /\ Returning(p, "cmd")
    /\ call' = [call EXCEPT ![p] = <<OpDone(Bottom(p), ExecResult(Top(p)))>>]
    /\ UNCHANGED <<wd, haveQuitMu, fired, avail, panicked, net, ops, hist, rx, cl>>

\* NewSession, lines 349-355: execute returns, send decodes
NewSessionReturn(p) ==
    /\ Returning(p, "NewSession")
    /\ LET s == Send(ExecResult(Top(p)))
           f == OpDone(Bottom(p), ExecResult(Top(p)))
       IN IF s.err # ErrNil
          THEN /\ call' = [call EXCEPT ![p] = <<f>>]
               /\ UNCHANGED <<wd, panicked, avail>>
          ELSE IF s.r = "nil"
          THEN \* r.SessionId on a nil *reply
               /\ panicked' = "nil reply"
               /\ call' = [call EXCEPT ![p] = <<[f EXCEPT !.pc = "panic"]>>]
               /\ UNCHANGED <<wd, avail>>
          ELSE /\ wd' = [wd EXCEPT !.id = NewSessionId(@, s.sid)]
               /\ call' = [call EXCEPT ![p] = <<[f EXCEPT !.ret = s.sid]>>]
               /\ avail' = TRUE
               /\ UNCHANGED panicked
    /\ UNCHANGED <<haveQuitMu, fired, net, ops, hist, rx, cl>>

\* Quit, lines 418-421 and 407: execute returns, the id is cleared on success,
\* the lock released; the Quit of a guard returns into that guard's execute,
\* which returns ErrCanceled to its command
QuitReturn(p) ==
    /\ Returning(p, "Quit")
    /\ LET x == ExecResult(Top(p))
           q == [call[p][Depth(p) - 1] EXCEPT !.err = x.err, !.err0 = x.err0,
                                              !.sent = x.sent, !.nreq = @ + x.nreq,
                                              !.pc = "done"]
       IN /\ wd' = [wd EXCEPT !.id = QuitId(@, x.err)]
          /\ call' = [call EXCEPT ![p] =
                        IF Depth(p) = 2 THEN <<q>>
                        ELSE <<OpGuarded(call[p][1], call[p][2], q)>>]
    /\ haveQuitMu' = "free"
    /\ hist' = [hist EXCEPT !.quitReturned = TRUE]
    /\ UNCHANGED <<fired, avail, panicked, net, ops, rx, cl>>

\* ------------------------------------------------------------ specification
Next ==
    \/ \E c \in Ctxs : SetContext(c)
    \/ \E t \in Tokens : Cancel(t)
    \/ \E p \in Commanders : CallCmd(p)
    \/ \E p \in Commanders : CallNewSession(p)
    \/ \E p \in Procs : CallQuit(p)
    \/ \E p \in Procs : Return(p)
    \/ \E p \in Procs : QuitAgain(p)
    \/ \E p \in Procs : QuitFirst(p)
    \/ \E p \in Procs : QuitExecute(p)
    \/ \E p \in Procs : ExecuteDo(p)
    \/ \E p \in Procs : ExecuteReply(p)
    \/ \E p \in Procs : ExecuteTransportError(p)
    \/ \E p \in Procs : ExecuteAborted(p)
    \/ \E p \in Procs : ExecuteCanceled(p)
    \/ \E p \in Procs : CmdReturn(p)
    \/ \E p \in Procs : NewSessionReturn(p)
    \/ \E p \in Procs : QuitReturn(p)

Spec == Init /\ [][Next]_vars

TypeOK ==
    /\ wd.id \in {NoId} \cup SessIds
    /\ wd.ctx \in {Nil} \cup Ctxs
    /\ wd.haveQuit \in BOOLEAN
    /\ haveQuitMu \in Procs \cup {"free"}
    /\ fired \subseteq Tokens
    /\ ops \in 0 .. MaxOps
    /\ \A p \in Procs : Depth(p) <= 5

\* ------------------------------------------- one command's exchange in detail
\* A second specification follows single commands through execute, send and
\* the command itself with the reply in full detail.  The driver is one that
\* NewRemote returned and on which SetContext was never called: wd.ctx is
\* context.Background(), so neither check of execute fires, and one caller
\* issues the commands one after the other.
ReplyInit ==
    /\ \E s \in SessIds : wd = [id |-> s, ctx |-> Background, haveQuit |-> FALSE]
    /\ haveQuitMu = "free"
    /\ fired = {}
    /\ call = [p \in Procs |-> <<>>]
    /\ avail = TRUE
    /\ panicked = "none"
    /\ net = [del |-> 0, delFor |-> {}]
    /\ ops = 0
    /\ hist = [quitReturned |-> FALSE, ctxRaced |-> FALSE, installed |-> Nil,
               quitBy |-> "none"]
    /\ rx = RxIdle
    /\ cl = ClInit

\* a command of one shape is called; execute passes its first check (98-104),
\* builds the request (118-125) and hands it to httpClient.Do (135)
RxCall(kind) ==
    /\ rx.pc = "idle" /\ panicked = "none"
    /\ ~Done(wd.ctx)
    /\ rx' = [RxIdle EXCEPT !.pc = "wait", !.kind = kind, !.method = Method(kind),
                            !.hdr = Headers(Method(kind)), !.via = 1]
    /\ UNCHANGED <<wd, haveQuitMu, fired, call, avail, panicked, net, ops, hist, cl>>

\* execute has (buf, err) = x (its deferred check passes, 105-113), send
\* decodes and the command returns, or dereferences a nil reply
RxFinish(rep, x) ==
    LET res == CommandResult(rx.kind, x)
    IN /\ ~Done(wd.ctx)
       /\ rx' = [rx EXCEPT !.rep = rep, !.buf = x.buf, !.err = x.err, !.res = res,
                           !.pc = IF res.panic THEN "panic" ELSE "done"]
       /\ panicked' = IF res.panic THEN "nil reply" ELSE panicked

\* lines 135-208: the reply arrives and is handled
RxReply(rep) ==
    /\ rx.pc = "wait" /\ panicked = "none"
    /\ RxFinish(rep, HandleReply(rep))
    /\ UNCHANGED <<wd, haveQuitMu, fired, call, avail, net, ops, hist, cl>>

\* lines 135-150: Do or ReadAll fails
RxTransportError ==
    /\ rx.pc = "wait" /\ panicked = "none"
    /\ RxFinish(NoReply, [buf |-> NilBuf, err |-> TransportError])
    /\ UNCHANGED <<wd, haveQuitMu, fired, call, avail, net, ops, hist, cl>>

\* the caller has its result and goes on
RxReturn ==
    /\ rx.pc = "done" /\ panicked = "none"
    /\ rx' = RxIdle
    /\ UNCHANGED <<wd, haveQuitMu, fired, call, avail, panicked, net, ops, hist, cl>>

ReplyNext ==
    \/ \E kind \in CmdKinds : RxCall(kind)
    \/ \E rep \in HTTPReplies : RxReply(rep)
    \/ RxTransportError
    \/ RxReturn

ReplySpec == ReplyInit /\ [][ReplyNext]_vars


\* ------------------------------------------------------- redirects in detail
\* A third specification follows the redirects of one command's request.
\* httpClient.Do follows a redirect response by calling CheckRedirect with
\* the upcoming request and the requests made already (via, oldest first),
\* and sends the upcoming request when CheckRedirect returns nil; rx.via is
\* the number of requests made, rx.hops the headers of the redirected
\* requests that were sent.
RedirectLimit == 10

\* line 216
StoppedError == Error("transport", ErrorText("stopped after 10 redirects", NoNum, FALSE, ""))

\* lines 215-217: CheckRedirect refuses the upcoming request
CheckRedirectRefuses(via) == via >= RedirectLimit

\* line 218: the headers of the upcoming request when CheckRedirect accepts it
CheckRedirectAddsNothing(hdr) == hdr
CheckRedirectHeaders(hdr) == hdr \cup {<<"Accept", jsonMIMEType>>}

\* the server answers the last request with a redirect and CheckRedirect
\* accepts the next request; whether net/http copied the headers of the first
\* request into it depends on the Go release
RxRedirect(copied) ==
    /\ rx.pc = "wait" /\ panicked = "none"
    /\ ~CheckRedirectRefuses(rx.via)
    /\ rx' = [rx EXCEPT !.via = @ + 1,
                        !.hops = Append(@, CheckRedirectHeaders(IF copied THEN rx.hdr ELSE {}))]
    /\ UNCHANGED <<wd, haveQuitMu, fired, call, avail, panicked, net, ops, hist, cl>>

\* the server answers the last request with a redirect and CheckRedirect
\* refuses: Do returns its error, execute returns it (lines 135-138)
RxRedirectStopped ==
    /\ rx.pc = "wait" /\ panicked = "none"
    /\ CheckRedirectRefuses(rx.via)
    /\ RxFinish(NoReply, [buf |-> NilBuf, err |-> StoppedError])
    /\ UNCHANGED <<wd, haveQuitMu, fired, call, avail, net, ops, hist, cl>>

\* the responses that end a chain of redirects
FinalReplies ==
    {rep \in HTTPReplies :
        /\ rep.ctype \in {jsonMIMEType, "text/plain"}
        /\ rep.code \in {HTTPOk, HTTPError}
        /\ \/ rep.body.form = "text"
           \/ /\ rep.body.form = "object" /\ rep.body.Status \in {SUCCESS, NoSuchElement}
              /\ rep.body.Value.form = "string"}

RedirectNext ==
    \/ \E kind \in CmdKinds : RxCall(kind)
    \/ \E copied \in BOOLEAN : RxRedirect(copied)
    \/ RxRedirectStopped
    \/ \E rep \in FinalReplies : RxReply(rep)
    \/ RxReturn

RedirectSpec == ReplyInit /\ [][RedirectNext]_vars


\* ---------------------------------------------------------- element handles
\* Drivers, the element handles they issue and the commands sent through a
\* handle.  A handle is a remoteWE (lines 743-746): the driver that owns it
\* and the server's opaque id (Handle, with the state).

\* &remoteWE{parent: wd, id: elem.Element}, lines 483 and 500
NewHandleNoId(d, id, session) == Handle(d, "", session)
NewHandle(d, id, session) == Handle(d, id, session)

\* the values a server answers a find with
RefValue(id) == [Value("object", "", NoMessage) EXCEPT !.ref = [form |-> "string", id |-> id]]
BadRefValue == [Value("object", "", NoMessage) EXCEPT !.ref = [form |-> "nonstring", id |-> ""]]
ArrayValue(items) == [Value("array", "", NoMessage) EXCEPT !.items = items]
FindValues ==
    {Value("missing", "", NoMessage), Value("null", "", NoMessage), Value("string", "v", NoMessage),
     Value("object", "", NoMessage), BadRefValue}
    \cup {RefValue(e) : e \in ElemIds}
    \cup {ArrayValue(<<>>), ArrayValue(<<RefValue("e1")>>),
          ArrayValue(<<RefValue("e1"), RefValue("e2")>>),
          ArrayValue(<<RefValue("e2"), RefValue("e1")>>),
          ArrayValue(<<RefValue("e1"), Value("string", "v", NoMessage)>>)}
FindReplies ==
    {[code |-> HTTPOk, ctype |-> jsonMIMEType, body |-> ReplyBody("object", SUCCESS, v)] :
        v \in FindValues}
    \cup {[code |-> HTTPOk, ctype |-> jsonMIMEType,
           body |-> ReplyBody("object", NoSuchElement, Value("missing", "", NoMessage))],
          [code |-> HTTPOk, ctype |-> "",
           body |-> ReplyBody("empty", SUCCESS, Value("missing", "", NoMessage))]}

\* r.readValue(&elem) with elem an element (lines 460-462, 479-480): the
\* decoded Element, "" when the object has no ELEMENT member
UnmarshalElement(v) ==
    [ok |-> v.form = "null" \/ (v.form = "object" /\ v.ref.form # "nonstring"),
     Element |-> IF v.form = "object" /\ v.ref.form = "string" THEN v.ref.id ELSE ""]

\* r.readValue(&elems) with elems a []element (lines 495-496)
UnmarshalElements(v) ==
    [ok |-> \/ v.form = "null"
            \/ /\ v.form = "array"
               /\ \A i \in 1 .. Len(v.items) : UnmarshalElement(v.items[i]).ok,
     elems |-> IF v.form = "array"
               THEN [i \in 1 .. Len(v.items) |-> UnmarshalElement(v.items[i]).Element]
               ELSE <<>>]

\* decodeElement (478-484) and decodeElements (494-503) for driver d: the
\* handles, or the panic
DecodeHandles(d, plural, v) ==
    IF plural
    THEN LET e == UnmarshalElements(v)
         IN [panic |-> ~e.ok,
             handles |-> IF e.ok
                         THEN [i \in 1 .. Len(e.elems) |-> NewHandle(d, e.elems[i], cl.id[d])]
                         ELSE <<>>]
    ELSE LET e == UnmarshalElement(v)
         IN [panic |-> ~e.ok,
             handles |-> IF e.ok THEN <<NewHandle(d, e.Element, cl.id[d])>> ELSE <<>>]


\* the session id in the URL of a command sent through handle h: the id the
\* owning driver holds when the command is sent (lines 286, 298, 472, 844, 862)
ElemSessionIssued(h) == h.issued
ElemSession(h) == cl.id[h.parent]

\* the per-element commands: voidCommand (Click 748, SendKeys 753, Submit 773,
\* Clear 778, MoveTo 783), stringCommand (TagName 763, Text 768, GetAttribute
\* 834, CSSProperty 870), boolCommand (816-832), location (841) and Size (860)
ElemCmds ==
    {"click", "value", "submit", "clear", "moveto", "name", "text", "attribute", "css",
     "selected", "enabled", "displayed", "location", "location_in_view", "size"}

\* the URL of command cmd sent through handle h; MoveTo's template has no
\* element id (line 789)
ElemURL(h, cmd) ==
    URL(ElemSession(h), IF cmd = "moveto" THEN "" ELSE h.id, cmd)

\* the element id in the parameters of the command: MoveTo alone (lines 784-788)
ElemParams(h, cmd) == [NoParams EXCEPT !.element = IF cmd = "moveto" THEN h.id ELSE ""]

ElemInit ==
    /\ wd = [id |-> NoId, ctx |-> Background, haveQuit |-> FALSE]
    /\ haveQuitMu = "free"
    /\ fired = {}
    /\ call = [p \in Procs |-> <<>>]
    /\ avail = TRUE
    /\ panicked = "none"
    /\ net = [del |-> 0, delFor |-> {}]
    /\ ops = 0
    /\ hist = [quitReturned |-> FALSE, ctxRaced |-> FALSE, installed |-> Nil,
               quitBy |-> "none"]
    /\ rx = RxIdle
    /\ cl = ClInit

\* NewSession of driver d succeeds with session id s (line 353)
ElNewSession(d, s) ==
    /\ panicked = "none"
    /\ cl.last = NoLast
    /\ cl' = [cl EXCEPT !.id[d] = NewSessionId(@, s), !.prev = NoResize]
    /\ UNCHANGED <<wd, haveQuitMu, fired, call, avail, panicked, net, ops, hist, rx>>

\* find (464-476) through driver d with the URL url, answered by rep, and the
\* decoding of the reply (486-511, 792-814); the caller keeps one of the
\* handles it got (keep: its position) or none of them
Find(d, h, cmd, url, rep, keep) ==
    LET s == SendReply(HandleReply(rep))
        dec == DecodeHandles(d, cmd = "elements", s.r.Value)
        failed == s.err # NoError
        panic == ~failed /\ (s.r.nil \/ dec.panic)
        handles == IF failed \/ panic THEN <<>> ELSE dec.handles
        last == [NoLast EXCEPT !.cmd = cmd,
                               !.by = d, !.h = h, !.url = url, !.rep = rep,
                               !.handles = handles, !.err = s.err, !.panic = panic]
    IN /\ panicked = "none"
       /\ cl.last = NoLast
       /\ keep \in 0 .. Len(handles)
       /\ keep # 0 => handles[keep].id # ""
       /\ cl' = [cl EXCEPT !.last = last,
                           !.held[d] = IF keep = 0 THEN @ ELSE handles[keep]]
       /\ panicked' = IF ~panic THEN panicked
                      ELSE IF s.r.nil THEN "nil reply" ELSE "decode"
       /\ UNCHANGED <<wd, haveQuitMu, fired, call, avail, net, ops, hist, rx>>

\* FindElement and FindElements of the driver, lines 486-511
ElFind(d, plural, rep, keep) ==
    LET cmd == IF plural THEN "elements" ELSE "element"
    IN Find(d, NoHandle, cmd, URL(cl.id[d], "", cmd), rep, keep)

\* ActiveElement, lines 585-592
ElActiveElement(d, rep, keep) ==
    Find(d, NoHandle, "active", URL(cl.id[d], "", "element/active"), rep, keep)

\* FindElement and FindElements of a handle, lines 792-814
ElNestedFind(h, plural, rep, keep) ==
    /\ h # NoHandle
    /\ Find(h.parent, h, IF plural THEN "elements" ELSE "element",
            URL(ElemSession(h), h.id, IF plural THEN "element/elements" ELSE "element/element"),
            rep, keep)

\* a per-element command is sent through handle h
ElCommand(h, cmd) ==
    /\ panicked = "none"
    /\ cl.last = NoLast
    /\ h # NoHandle
    /\ cl' = [cl EXCEPT !.last = [NoLast EXCEPT !.cmd = cmd, !.by = h.parent, !.h = h,
                                                !.url = ElemURL(h, cmd),
                                                !.params = ElemParams(h, cmd)]]
    /\ UNCHANGED <<wd, haveQuitMu, fired, call, avail, panicked, net, ops, hist, rx>>

\* the command returns to the caller
ElReturn ==
    /\ panicked = "none"
    /\ cl.last # NoLast
    /\ cl' = [cl EXCEPT !.last = NoLast,
                        !.prev = IF cl.last.cmd = "ResizeWindow" /\ cl.last.err = NoError
                                 THEN [by |-> cl.last.by, url |-> cl.last.url, to |-> cl.last.args[1]]
                                 ELSE NoResize]
    /\ UNCHANGED <<wd, haveQuitMu, fired, call, avail, panicked, net, ops, hist, rx>>

ElemNext ==
    \/ \E d \in Drivers, s \in SessIds : ElNewSession(d, s)
    \/ \E d \in Drivers, plural \in BOOLEAN, rep \in FindReplies, keep \in 0 .. Cardinality(ElemIds) :
          ElFind(d, plural, rep, keep)
    \/ \E d \in Drivers, plural \in BOOLEAN, rep \in FindReplies, keep \in 0 .. Cardinality(ElemIds) :
          ElNestedFind(cl.held[d], plural, rep, keep)
    \/ \E d \in Drivers, rep \in FindReplies, keep \in 0 .. Cardinality(ElemIds) :
          ElActiveElement(d, rep, keep)
    \/ \E d \in Drivers, cmd \in ElemCmds : ElCommand(cl.held[d], cmd)
    \/ ElReturn

ElemSpec == ElemInit /\ [][ElemNext]_vars


\* ------------------------------------------------------------ script arguments
\* An argument of a script (an interface{}): a scalar, an element handle (a
\* *remoteWE with its id), the wire object of a handle (an *element), or a
\* list of arguments.  On the wire (json.Marshal): a scalar, the object
\* {"ELEMENT": id}, the empty object {}, or an array.
Term(t, v, id, items) == [t |-> t, v |-> v, id |-> id, items |-> items]
Scalar(v) == Term("scalar", v, "", <<>>)
HandleArg(id) == Term("handle", "", id, <<>>)
ElementArg(id) == Term("element", "", id, <<>>)
ListArg(items) == Term("list", "", "", items)
WireRef(id) == Term("ref", "", id, <<>>)
WireEmptyObject == Term("object", "", "", <<>>)

\* json.Marshal of an argument (line 702): an *element has the exported field
\* Element tagged ELEMENT (lines 460-462); a *remoteWE has no exported field
\* (lines 743-746), so it is marshaled as {}
RECURSIVE Marshal(_)
Marshal(arg) ==
    CASE arg.t = "scalar" -> arg
      [] arg.t = "element" -> WireRef(arg.id)
      [] arg.t = "handle" -> WireEmptyObject
      [] OTHER -> ListArg([i \in 1 .. Len(arg.items) |-> Marshal(arg.items[i])])

\* lines 692-696: an argument that is a handle is replaced by its *element
Substitute(arg) == IF arg.t = "handle" THEN ElementArg(arg.id) ELSE arg

\* the args member of the parameters, lines 689-700
ScriptArgs(args) == [i \in 1 .. Len(args) |-> Marshal(Substitute(args[i]))]

\* the arguments the scripts are called with: atoms, and lists of atoms
Atoms == {Scalar("x")} \cup {HandleArg(e) : e \in ElemIds}
SeqsUpTo2(S) == {<<>>} \cup {<<a>> : a \in S} \cup {<<a, b>> : a \in S, b \in S}
Args == Atoms \cup {ListArg(items) : items \in SeqsUpTo2(Atoms)}
ArgLists == SeqsUpTo2(Args)

\* ------------------------------------------------------ decoding the value
\* The commands that return a value and the Go type each decodes the value
\* into: *Status (line 328), []Session (336), Capabilities (358), *Size (539),
\* *Point (551), []Cookie (594), interface{} (688), string (284), []string
\* (304), bool (312).
ValueCmds ==
    {"Status", "Sessions", "Capabilities", "WindowSize", "WindowPosition", "GetCookies",
     "ExecuteScript", "string", "strings", "bool"}
Shape(cmd) ==
    CASE cmd \in {"Status", "WindowSize", "WindowPosition", "Capabilities"} -> "object"
      [] cmd \in {"Sessions", "GetCookies"} -> "objects"
      [] cmd = "ExecuteScript" -> "any"
      [] OTHER -> cmd

\* json.Unmarshal(r.Value, v), line 251, succeeds: empty input is an error,
\* null leaves v as it is, anything decodes into an interface{}, and otherwise
\* the JSON type has to be the one of v (null items of an array are skipped)
RECURSIVE Decodes(_, _)
Decodes(shape, v) ==
    CASE v.form = "missing" -> FALSE
      [] v.form = "null" -> TRUE
      [] shape = "any" -> TRUE
      [] shape = "strings" ->
            v.form = "array" /\ \A i \in 1 .. Len(v.items) : Decodes("string", v.items[i])
      [] shape = "objects" ->
            v.form = "array" /\ \A i \in 1 .. Len(v.items) : Decodes("object", v.items[i])
      [] OTHER -> v.form = shape

\* the cookies of a reply's value
CookieValue(name, expiry) == [Value("object", "", NoMessage) EXCEPT !.name = name, !.expiry = expiry]
Expiries ==
    {NoExpiry, [form |-> "null", tenths |-> 0], [form |-> "number", tenths |-> 0],
     [form |-> "number", tenths |-> 15], [form |-> "number", tenths |-> 20],
     [form |-> "numeric string", tenths |-> 30], [form |-> "string", tenths |-> 0],
     [form |-> "bool", tenths |-> 0]}
CookieArrays ==
    {ArrayValue(<<>>)}
    \cup {ArrayValue(<<CookieValue("a", e)>>) : e \in Expiries}
    \cup {ArrayValue(<<CookieValue("a", e), CookieValue("b", f)>>) : e \in Expiries, f \in Expiries}

\* a Cookie (part_000, lines 119-126)
Cookie(name, Expiry) == [name |-> name, Expiry |-> Expiry]

\* r.readValue(&c), line 597: Expiry is tagged json:"-" and stays 0
PrimaryCookies(v) ==
    IF v.form = "array"
    THEN [i \in 1 .. Len(v.items) |-> Cookie(v.items[i].name, 0)]
    ELSE <<>>

\* json.Unmarshal(raw, &expiries), lines 606-610, fails: an Expiry that is
\* neither a number nor a string with a number does not decode into a
\* json.Number (null leaves it empty)
ExpiryDecodes(e) == e.form \in {"absent", "null", "number", "numeric string"}
ExpiriesParse(v) ==
    Decodes("objects", v) /\ \A i \in 1 .. Len(v.items) : ExpiryDecodes(v.items[i].expiry)

\* expiries[i].Expiry.Float64(), line 616: fails on the empty json.Number
Float64(e) == [ok |-> e.form \in {"number", "numeric string"}, tenths |-> e.tenths]

\* uint(expiry), line 621, of a float that is not negative, given in tenths
UintRoundedUp(tenths) == (tenths + 9) \div 10
Uint(tenths) == tenths \div 10

\* parseCookieExpiry, lines 605-623
ParseCookieExpiry(cookies, raw) ==
    IF ~ExpiriesParse(raw) THEN cookies
    ELSE [i \in 1 .. Len(cookies) |->
            LET expiry == Float64(raw.items[i].expiry)
            IN IF ~expiry.ok THEN cookies[i]
               ELSE [cookies[i] EXCEPT !.Expiry = Uint(expiry.tenths)]]

\* what becomes of a failure of the secondary parse: nothing (lines 609-611)
ExpiryErrorReturned(parsed) == IF parsed THEN NoError ELSE DecodeError
ExpiryError(parsed) == NoError

\* the error a command makes of readValue's: Capabilities drops it (line 361),
\* the others return it (lines 287, 307, 315, 331, 339, 546, 558, 597, 709)
ReadValueError(cmd, ok) ==
    IF cmd = "Capabilities" \/ ok THEN NoError ELSE DecodeError

\* json.Unmarshal of a value into a *Size and json.Marshal of a Size: Width
\* is the member width and Height the member height (lines 113-116 of part_000)
UnmarshalSize(v) == IF v.form = "object" THEN Size(v.width, v.height) ELSE Size(0, 0)
MarshalSize(to) == WireSize(to.Width, to.Height)
SizeValue(w) == [Value("object", "", NoMessage) EXCEPT !.width = w.width, !.height = w.height]

\* the values and the replies the commands are answered with
DecodeValues ==
    {Value("missing", "", NoMessage), Value("null", "", NoMessage), Value("string", "v", NoMessage),
     Value("bool", "", NoMessage), Value("object", "", NoMessage),
     ArrayValue(<<Value("string", "v", NoMessage)>>),
     ArrayValue(<<Value("object", "", NoMessage), Value("string", "v", NoMessage)>>)}
    \cup CookieArrays
DecodeReplies ==
    {[code |-> HTTPOk, ctype |-> jsonMIMEType, body |-> ReplyBody("object", SUCCESS, v)] :
        v \in DecodeValues}
    \cup {[code |-> HTTPOk, ctype |-> ct, body |-> ReplyBody(f, SUCCESS, Value("missing", "", NoMessage))] :
            ct \in {jsonMIMEType, "text/plain"}, f \in {"text", "empty"}}
    \cup {[code |-> HTTPOk, ctype |-> jsonMIMEType,
           body |-> ReplyBody("object", NoSuchElement, Value("missing", "", NoMessage))]}

\* a value-returning command of driver d is answered by rep
ValueCommand(d, cmd, rep) ==
    LET s == SendReply(HandleReply(rep))
        v == s.r.Value
        read == s.err = NoError /\ ~s.r.nil
        ok == Decodes(Shape(cmd), v)
        cookies == IF cmd = "GetCookies" /\ ok
                   THEN ParseCookieExpiry(PrimaryCookies(v), v) ELSE <<>>
        err == IF s.err # NoError THEN s.err
               ELSE IF s.r.nil THEN NoError
               ELSE IF cmd = "GetCookies" /\ ok THEN ExpiryError(ExpiriesParse(v))
               ELSE ReadValueError(cmd, ok)
        res == IF ~read \/ ~ok THEN NoRes
               ELSE [NoRes EXCEPT
                       !.has = v.form # "null", !.cookies = cookies,
                       !.size = IF cmd = "WindowSize" THEN UnmarshalSize(v) ELSE Size(0, 0)]
    IN /\ panicked = "none"
       /\ cl.last = NoLast
       /\ cl' = [cl EXCEPT !.last = [NoLast EXCEPT !.cmd = cmd, !.by = d, !.rep = rep,
                                                   !.res = res, !.err = err,
                                                   !.panic = s.err = NoError /\ s.r.nil]]
       /\ panicked' = IF s.err = NoError /\ s.r.nil THEN "nil reply" ELSE panicked
       /\ UNCHANGED <<wd, haveQuitMu, fired, call, avail, net, ops, hist, rx>>

DecodeNext ==
    \/ \E d \in Drivers, cmd \in ValueCmds, rep \in DecodeReplies : ValueCommand(d, cmd, rep)
    \/ ElReturn

DecodeSpec == ElemInit /\ [][DecodeNext]_vars

\* ------------------------------------------------------- running a script
\* lines 689-691: whether args is still nil when the parameters are built; a
\* nil list was replaced by an empty one (json.Marshal writes a nil slice as
\* null)
NilKept(absent) == absent
NilReplaced(absent) == FALSE

\* json.Unmarshal(r.Value, &res) with res an interface{}, line 709: a number
\* becomes a float64, a string a string, an object a map, an array a slice
NumberValue(n) == [Value("number", "", NoMessage) EXCEPT !.num = n]
UnmarshalAny(v) ==
    [t |-> CASE v.form = "number" -> "float64"
             [] v.form = "string" -> "string"
             [] v.form = "bool" -> "bool"
             [] v.form = "object" -> "map"
             [] v.form = "array" -> "slice"
             [] OTHER -> "nil",
     num |-> v.num, str |-> v.str]

\* the replies to a script
ScriptReplies ==
    {[code |-> HTTPOk, ctype |-> jsonMIMEType, body |-> ReplyBody("object", SUCCESS, v)] :
        v \in {NumberValue(3), Value("string", "v", NoMessage), Value("null", "", NoMessage),
               Value("missing", "", NoMessage)}}
    \cup {[code |-> HTTPOk, ctype |-> jsonMIMEType,
           body |-> ReplyBody("object", NoSuchElement, Value("missing", "", NoMessage))],
          [code |-> HTTPOk, ctype |-> "",
           body |-> ReplyBody("empty", SUCCESS, Value("missing", "", NoMessage))]}

\* execScript, lines 688-715: ExecuteScript (suffix "") and ExecuteScriptAsync
\* (suffix "_async") send the script and its arguments (absent: the caller
\* passed a nil list) and decode the value of the reply rep
ExecScript(d, args, absent, suffix, rep) ==
    LET s == SendReply(HandleReply(rep))
        read == s.err = NoError /\ ~s.r.nil
        ok == Decodes("any", s.r.Value)
    IN /\ panicked = "none"
       /\ cl.last = NoLast
       /\ absent => args = <<>>
       /\ cl' = [cl EXCEPT !.last =
                   [NoLast EXCEPT !.cmd = "execute" \o suffix, !.by = d,
                                  !.url = URL(cl.id[d], "", "execute" \o suffix),
                                  !.args = args, !.absent = absent,
                                  !.params = [NoParams EXCEPT !.args = ScriptArgs(args),
                                                              !.nullArgs = NilReplaced(absent)],
                                  !.rep = rep,
                                  !.res = IF read /\ ok
                                          THEN [NoRes EXCEPT !.has = s.r.Value.form # "null",
                                                             !.any = UnmarshalAny(s.r.Value)]
                                          ELSE NoRes,
                                  !.err = IF s.err # NoError THEN s.err
                                          ELSE IF s.r.nil THEN NoError
                                          ELSE ReadValueError("ExecuteScript", ok),
                                  !.panic = s.err = NoError /\ s.r.nil]]
       /\ panicked' = IF s.err = NoError /\ s.r.nil THEN "nil reply" ELSE panicked
       /\ UNCHANGED <<wd, haveQuitMu, fired, call, avail, net, ops, hist, rx>>

ScriptNext ==
    \/ \E d \in Drivers, s \in SessIds : ElNewSession(d, s)
    \/ /\ cl.last = NoLast
       /\ \E d \in Drivers, args \in ArgLists, absent \in BOOLEAN, suffix \in {"", "_async"},
             rep \in ScriptReplies : ExecScript(d, args, absent, suffix, rep)
    \/ ElReturn

ScriptSpec == ElemInit /\ [][ScriptNext]_vars

\* ---------------------------------------------------------------- windows
\* lines 540-542 and 564-566: the empty name stands for the current window
WindowName(name) == IF name = "" THEN "current" ELSE name

\* the URLs of WindowSize (line 543), WindowPosition (line 555) and
\* ResizeWindow (line 567)
WindowPositionURL(id, name) == URL(id, WindowName(name), "window/position")
WindowSizeURL(id, name) == URL(id, WindowName(name), "window/size")
ResizeWindowURL(id, name) == URL(id, WindowName(name), "window/size")

\* the server: a request for a session or a window it does not have fails
Serves(url) == url.session \in SessIds /\ Resolve(url.elem) \in WinHandles
FailedReply ==
    [code |-> HTTPOk, ctype |-> jsonMIMEType,
     body |-> ReplyBody("object", NoSuchElement, Value("missing", "", NoMessage))]
SuccessReply(v) == [code |-> HTTPOk, ctype |-> jsonMIMEType, body |-> ReplyBody("object", SUCCESS, v)]
\* the server's answer to GET url: the size of the window, or its position
Get(url) ==
    IF ~Serves(url) THEN FailedReply
    ELSE IF url.path = "window/size"
         THEN SuccessReply(SizeValue(cl.win[url.session, Resolve(url.elem)]))
         ELSE SuccessReply(Value("object", "", NoMessage))

\* ResizeWindow, lines 563-574; the server resizes the window and answers,
\* unless it fails
ResizeWindow(d, name, to, fails) ==
    LET url == ResizeWindowURL(cl.id[d], name)
        data == MarshalSize(to)
        done == Serves(url) /\ ~fails
        rep == IF done THEN SuccessReply(Value("null", "", NoMessage)) ELSE FailedReply
        s == SendReply(HandleReply(rep))
    IN /\ panicked = "none"
       /\ cl.last = NoLast
       /\ cl' = [cl EXCEPT !.last = [NoLast EXCEPT !.cmd = "ResizeWindow", !.by = d, !.url = url,
                                                   !.args = <<to>>,
                                                   !.params = [NoParams EXCEPT !.size = data],
                                                   !.rep = rep, !.err = s.err],
                           !.win = IF done
                                   THEN [@ EXCEPT ![url.session, Resolve(url.elem)] = data]
                                   ELSE @]
       /\ UNCHANGED <<wd, haveQuitMu, fired, call, avail, panicked, net, ops, hist, rx>>

\* WindowSize, lines 539-549
WindowSize(d, name, fails) ==
    LET url == WindowSizeURL(cl.id[d], name)
        rep == IF fails THEN FailedReply ELSE Get(url)
        s == SendReply(HandleReply(rep))
        ok == s.err = NoError /\ Decodes("object", s.r.Value)
    IN /\ panicked = "none"
       /\ cl.last = NoLast
       /\ cl' = [cl EXCEPT !.last = [NoLast EXCEPT !.cmd = "WindowSize", !.by = d, !.url = url,
                                                   !.args = <<name>>, !.rep = rep,
                                                   !.res = IF ok
                                                           THEN [NoRes EXCEPT !.has = TRUE,
                                                                   !.size = UnmarshalSize(s.r.Value)]
                                                           ELSE NoRes,
                                                   !.err = IF s.err # NoError THEN s.err
                                                           ELSE ReadValueError("WindowSize", ok)]]
       /\ UNCHANGED <<wd, haveQuitMu, fired, call, avail, panicked, net, ops, hist, rx>>

WindowNames == {"", "current"} \cup WinHandles
WindowNext ==
    \/ \E d \in Drivers, s \in SessIds : ElNewSession(d, s)
    \/ \E d \in Drivers, name \in WindowNames, to \in Sizes, fails \in BOOLEAN :
          ResizeWindow(d, name, to, fails)
    \/ \E d \in Drivers, name \in WindowNames, fails \in BOOLEAN : WindowSize(d, name, fails)
    \/ ElReturn

WindowSpec == ElemInit /\ [][WindowNext]_vars

\* ------------------------------------------------------ the URL of a command
\* the executor of each driver (the parameter of NewRemote, line 270)
Executor == [d \in Drivers |-> "http://" \o d \o ":4444/wd/hub"]

\* fmt.Sprintf on a template cut into pieces at its %s verbs: every verb takes
\* the next argument
RECURSIVE Sprintf(_, _)
Sprintf(template, args) ==
    IF template = <<>> THEN <<>>
    ELSE IF Head(template) # "%s" THEN <<Head(template)>> \o Sprintf(Tail(template), args)
    ELSE IF args = <<>> THEN <<"%!s(MISSING)">> \o Sprintf(Tail(template), args)
    ELSE <<Head(args)>> \o Sprintf(Tail(template), Tail(args))

\* wd.url, lines 74-77
UrlOf(d, template, args) == <<Executor[d]>> \o Sprintf(template, args)

\* the URL template of every command of the driver that is sent to the session
\* (lines 358-735), as written in the source
SessionTemplates ==
    [Capabilities           |-> <<"/session/", "%s">>,
     SetTimeout             |-> <<"/session/", "%s", "/timeouts">>,
     SetAsyncScriptTimeout  |-> <<"/session/", "%s", "/timeouts/async_script">>,
     SetImplicitWaitTimeout |-> <<"/session/", "%s", "/timeouts/implicit_wait">>,
     AvailableEngines       |-> <<"/session/", "%s", "/ime/available_engines">>,
     ActiveEngine           |-> <<"/session/", "%s", "/ime/active_engine">>,
     IsEngineActivated      |-> <<"/session/", "%s", "/ime/activated">>,
     DeactivateEngine       |-> <<"session/", "%s", "/ime/deactivate">>,
     ActivateEngine         |-> <<"/session/", "%s", "/ime/activate">>,
     Quit                   |-> <<"/session/", "%s">>,
     CurrentWindowHandle    |-> <<"/session/", "%s", "/window_handle">>,
     WindowHandles          |-> <<"/session/", "%s", "/window_handles">>,
     CurrentURL             |-> <<"/session/", "%s", "/url">>,
     Get                    |-> <<"/session/", "%s", "/url">>,
     Forward                |-> <<"/session/", "%s", "/forward">>,
     Back                   |-> <<"/session/", "%s", "/back">>,
     Refresh                |-> <<"/session/", "%s", "/refresh">>,
     Title                  |-> <<"/session/", "%s", "/title">>,
     PageSource             |-> <<"/session/", "%s", "/source">>,
     FindElement            |-> <<"/session/", "%s", "/element">>,
     FindElements           |-> <<"/session/", "%s", "/elements">>,
     Close                  |-> <<"/session/", "%s", "/window">>,
     SwitchWindow           |-> <<"/session/", "%s", "/window">>,
     CloseWindow            |-> <<"/session/", "%s", "/window">>,
     WindowSize             |-> <<"/session/", "%s", "/window/", "%s", "/size">>,
     WindowPosition         |-> <<"/session/", "%s", "/window/", "%s", "/position">>,
     ResizeWindow           |-> <<"/session/", "%s", "/window/", "%s", "/size">>,
     SwitchFrame            |-> <<"/session/", "%s", "/frame">>,
     SwitchFrameParent      |-> <<"/session/", "%s", "/frame/parent">>,
     ActiveElement          |-> <<"/session/", "%s", "/element/active">>,
     GetCookies             |-> <<"/session/", "%s", "/cookie">>,
     AddCookie              |-> <<"/session/", "%s", "/cookie">>,
     DeleteAllCookies       |-> <<"/session/", "%s", "/cookie">>,
     DeleteCookie           |-> <<"/session/", "%s", "/cookie/", "%s">>,
     Click                  |-> <<"/session/", "%s", "/click">>,
     DoubleClick            |-> <<"/session/", "%s", "/doubleclick">>,
     ButtonDown             |-> <<"/session/", "%s", "/buttondown">>,
     ButtonUp               |-> <<"/session/", "%s", "/buttonup">>,
     SendModifier           |-> <<"/session/", "%s", "/modifier">>,
     DismissAlert           |-> <<"/session/", "%s", "/dismiss_alert">>,
     AcceptAlert            |-> <<"/session/", "%s", "/accept_alert">>,
     AlertText              |-> <<"/session/", "%s", "/alert_text">>,
     SetAlertText           |-> <<"/session/", "%s", "/alert_text">>,
     ExecuteScript          |-> <<"/session/", "%s", "/execute">>,
     ExecuteScriptAsync     |-> <<"/session/", "%s", "/execute_async">>,
     Screenshot             |-> <<"/session/", "%s", "/screenshot">>]

\* the arguments of the template after the session id: the window name (lines
\* 540-543, 552-555, 564-567) or the cookie name (line 636)
NamedCmds == {"WindowSize", "WindowPosition", "ResizeWindow"}
UrlArgs(cmd, name) ==
    IF cmd \in NamedCmds THEN <<WindowName(name)>>
    ELSE IF cmd = "DeleteCookie" THEN <<name>>
    ELSE <<>>

\* command cmd of driver d is sent to its URL; the server answers or fails
UrlCommand(d, cmd, name, fails) ==
    LET rep == IF fails THEN FailedReply ELSE SuccessReply(Value("null", "", NoMessage))
        s == SendReply(HandleReply(rep))
    IN /\ panicked = "none"
       /\ cl.last = NoLast
       /\ cl' = [cl EXCEPT !.last =
                    [NoLast EXCEPT !.cmd = cmd, !.by = d, !.args = <<name>>,
                                   !.text = UrlOf(d, SessionTemplates[cmd],
                                                  <<cl.id[d]>> \o UrlArgs(cmd, name)),
                                   !.rep = rep, !.err = s.err]]
       /\ UNCHANGED <<wd, haveQuitMu, fired, call, avail, panicked, net, ops, hist, rx>>

UrlNext ==
    \/ \E d \in Drivers, s \in SessIds : ElNewSession(d, s)
    \/ /\ cl.last = NoLast
       /\ \E d \in Drivers, cmd \in DOMAIN SessionTemplates, name \in {"", "w1"},
             fails \in BOOLEAN : UrlCommand(d, cmd, name, fails)
    \/ ElReturn

UrlSpec == ElemInit /\ [][UrlNext]_vars

\* ------------------------------------------------------------ several drivers
\* Every method reads and writes the fields of its receiver wd (lines 59-68)
SharedDriver(d) == "wd1"
Receiver(d) == d

\* the context whose Done channel execute's guards read (lines 99, 107): the
\* driver's, never the argument of the call
GuardArgument(wdctx, arg) == arg
GuardContext(wdctx, arg) == wdctx

\* a step of a call on driver d: the fields and the id of its receiver become w
\* and id
DrStep(d, w, id) ==
    /\ panicked = "none"
    /\ cl' = [cl EXCEPT !.dr[Receiver(d)] = w, !.id[Receiver(d)] = id, !.by = d]
    /\ UNCHANGED <<wd, haveQuitMu, fired, call, avail, panicked, net, ops, hist, rx>>

\* Quit (lines 405-418) up to the Do of its delete, called by call c on the
\* driver w with the id id: the no-op branch returns at once
QuitStart(d, w, id, c) ==
    IF w.haveQuit
    THEN [w EXCEPT !.cur = [c EXCEPT !.pc = "done"]]
    ELSE [w EXCEPT !.haveQuit = QuitFlag, !.ctx = QuitCtx(@),
                   !.cur = [c EXCEPT !.pc = "quitting",
                                     !.req = UrlOf(Receiver(d), SessionTemplates.Quit, <<id>>)]]

\* execute's guard (lines 98-104 and 105-113) found the context done: the
\* call returns ErrCanceled once the Quit it calls has returned
Guarded(d, w, id, c) ==
    QuitStart(d, w, id, [c EXCEPT !.err = ErrCanceled, !.tore = ~w.haveQuit])

\* NewRemote (lines 264-277) with the context arg: a new driver, whose
\* NewSession is sent
DrNewRemote(d, arg) ==
    /\ cl.dr[d].cur = NoCall
    /\ panicked = "none"
    /\ cl' = [cl EXCEPT !.dr[d] = [NoDriver EXCEPT !.cur =
                                      [NoCall EXCEPT !.fn = "NewRemote", !.arg = arg,
                                                     !.pc = "sent",
                                                     !.req = UrlOf(d, <<"/session">>, <<>>)]],
                        !.id[d] = NoId, !.by = d]
    /\ UNCHANGED <<wd, haveQuitMu, fired, call, avail, panicked, net, ops, hist, rx>>

\* SetContext, lines 70-72
DrSetContext(d, c) ==
    LET w == cl.dr[Receiver(d)]
    IN /\ cl.dr[d].have /\ w.cur = NoCall
       /\ DrStep(d, [w EXCEPT !.ctx = c, !.set = TRUE], cl.id[Receiver(d)])

\* a command (here Title, line 453) is called with the context arg: execute up
\* to its Do, lines 97-135
DrCommand(d, arg) ==
    LET w == cl.dr[Receiver(d)]
        id == cl.id[Receiver(d)]
        c == [NoCall EXCEPT !.fn = "Title", !.arg = arg, !.tok = w.ctx]
    IN /\ cl.dr[d].have /\ w.cur = NoCall
       /\ DrStep(d, IF Done(GuardContext(w.ctx, arg))
                    THEN Guarded(d, w, id, c)
                    ELSE [w EXCEPT !.cur = [c EXCEPT !.pc = "sent",
                              !.req = UrlOf(Receiver(d), SessionTemplates.Title, <<id>>)]],
                 id)

\* Quit is called with the context arg
DrQuit(d, arg) ==
    LET w == cl.dr[Receiver(d)]
        id == cl.id[Receiver(d)]
    IN /\ cl.dr[d].have /\ w.cur = NoCall
       /\ DrStep(d, QuitStart(d, w, id, [NoCall EXCEPT !.fn = "Quit", !.arg = arg,
                                                       !.tok = w.ctx]), id)

\* the reply to the request of the call arrives (err: the error of the
\* exchange, s: the id of a new session): execute's deferred guard, lines
\* 105-113, and the return to NewSession (350-355) or to the command
DrReply(d, err, s) ==
    LET w == cl.dr[Receiver(d)]
        id == cl.id[Receiver(d)]
        c == w.cur
        ok == err = ErrNil
    IN /\ c.pc = "sent"
       /\ IF Done(GuardContext(w.ctx, c.arg))
          THEN DrStep(d, Guarded(d, w, id, c), id)
          ELSE DrStep(d, [w EXCEPT !.cur = [c EXCEPT !.pc = "done", !.err = err],
                                   !.have = IF c.fn = "NewRemote" THEN ok ELSE @],
                      IF c.fn = "NewRemote" /\ ok THEN NewSessionId(id, s) ELSE id)

\* the reply to Quit's delete arrives, lines 418-421; the call that Quit was
\* made for returns
DrQuitReply(d, err) ==
    LET w == cl.dr[Receiver(d)]
        c == w.cur
    IN /\ c.pc = "quitting"
       /\ DrStep(d, [w EXCEPT !.cur = [c EXCEPT !.pc = "done",
                                                !.err = IF c.fn = "Quit" THEN err ELSE @]],
                  QuitId(cl.id[Receiver(d)], err))

\* the call has returned
DrReturn(d) ==
    LET w == cl.dr[Receiver(d)]
    IN /\ w.cur.pc = "done"
       /\ DrStep(d, [w EXCEPT !.cur = NoCall], cl.id[Receiver(d)])

\* the caller cancels a context
DrCancel(c) ==
    /\ panicked = "none"
    /\ c \notin fired
    /\ fired' = fired \cup {c}
    /\ UNCHANGED <<wd, haveQuitMu, call, avail, panicked, net, ops, hist, rx, cl>>

DriverNext ==
    \/ \E d \in Drivers, arg \in Ctxs : DrNewRemote(d, arg)
    \/ \E d \in Drivers, c \in Ctxs : DrSetContext(d, c)
    \/ \E d \in Drivers, arg \in Ctxs : DrCommand(d, arg)
    \/ \E d \in Drivers, arg \in Ctxs : DrQuit(d, arg)
    \/ \E d \in Drivers, err \in {ErrNil, ErrProtocol} :
          \E s \in IF cl.dr[d].cur.fn = "NewRemote" /\ err = ErrNil THEN SessIds ELSE {NoId} :
             DrReply(d, err, s)
    \/ \E d \in Drivers, err \in {ErrNil, ErrProtocol} : DrQuitReply(d, err)
    \/ \E d \in Drivers : DrReturn(d)
    \/ \E c \in Tokens : DrCancel(c)

DriverSpec == ElemInit /\ [][DriverNext]_vars

\* ------------------------------------------------- the order of the requests
\* httpClient.Do (line 135) returns without an error when the response to the
\* request has arrived, not when the request has been written
DoReturnsWhenSent(sent, replied) == sent
DoReturns(sent, replied) == replied

\* a command is called: execute builds its one request and hands it to
\* httpClient.Do (lines 115-135)
OrdCall ==
    /\ panicked = "none"
    /\ cl.ord.pc = "idle"
    /\ cl.ord.n < MaxOps
    /\ cl' = [cl EXCEPT !.ord.n = @ + 1, !.ord.pc = "Do", !.ord.wire = @ \cup {cl.ord.n + 1}]
    /\ UNCHANGED <<wd, haveQuitMu, fired, call, avail, panicked, net, ops, hist, rx>>

\* the server handles a request that has reached it and replies; the reply to
\* a command that has returned already goes nowhere
OrdServe(k) ==
    /\ panicked = "none"
    /\ k \in cl.ord.wire
    /\ cl' = [cl EXCEPT !.ord.wire = @ \ {k},
                        !.ord.srv = Append(@, k),
                        !.ord.back = IF k = cl.ord.n /\ cl.ord.pc = "Do"
                                     THEN [to |-> k, seen |-> Append(cl.ord.srv, k)]
                                     ELSE @]
    /\ UNCHANGED <<wd, haveQuitMu, fired, call, avail, panicked, net, ops, hist, rx>>

\* Do returns the response and execute reads it (lines 135-150); the command
\* returns what the reply says
OrdReceive ==
    /\ panicked = "none"
    /\ cl.ord.pc = "Do"
    /\ DoReturns(cl.ord.n \in cl.ord.wire \cup Range(cl.ord.srv), cl.ord.back.to = cl.ord.n)
    /\ cl' = [cl EXCEPT !.ord.pc = "idle", !.ord.back = NoBack,
                        !.ord.ret = Append(@, [ok |-> TRUE,
                                               seen |-> IF cl.ord.back.to = cl.ord.n
                                                        THEN cl.ord.back.seen ELSE <<>>])]
    /\ UNCHANGED <<wd, haveQuitMu, fired, call, avail, panicked, net, ops, hist, rx>>

\* Do or ReadAll fails (lines 136-138, 148-150): the command returns the
\* error; its request may have been handled, be handled later, or never
OrdFail ==
    /\ panicked = "none"
    /\ cl.ord.pc = "Do"
    /\ cl' = [cl EXCEPT !.ord.pc = "idle", !.ord.back = NoBack,
                        !.ord.ret = Append(@, [ok |-> FALSE, seen |-> <<>>])]
    /\ UNCHANGED <<wd, haveQuitMu, fired, call, avail, panicked, net, ops, hist, rx>>

\* the network loses the request of a command that failed
OrdLose(k) ==
    /\ panicked = "none"
    /\ k \in cl.ord.wire
    /\ k <= Len(cl.ord.ret)
    /\ cl' = [cl EXCEPT !.ord.wire = @ \ {k}]
    /\ UNCHANGED <<wd, haveQuitMu, fired, call, avail, panicked, net, ops, hist, rx>>

OrderNext ==
    \/ OrdCall
    \/ \E k \in 1 .. MaxOps : OrdServe(k)
    \/ OrdReceive
    \/ OrdFail
    \/ \E k \in 1 .. MaxOps : OrdLose(k)

OrderSpec == ElemInit /\ [][OrderNext]_vars

\* -------------------------------------------------------------- screenshots
\* base64.StdEncoding: the alphabet, the value of a character, and the
\* padding character "="
Alphabet ==
    <<"A", "B", "C", "D", "E", "F", "G", "H", "I", "J", "K", "L", "M", "N", "O", "P",
      "Q", "R", "S", "T", "U", "V", "W", "X", "Y", "Z", "a", "b", "c", "d", "e", "f",
      "g", "h", "i", "j", "k", "l", "m", "n", "o", "p", "q", "r", "s", "t", "u", "v",
      "w", "x", "y", "z", "0", "1", "2", "3", "4", "5", "6", "7", "8", "9", "+", "/">>
InAlphabet(c) == \E i \in 1 .. Len(Alphabet) : Alphabet[i] = c
Sextet(c) == (CHOOSE i \in 1 .. Len(Alphabet) : Alphabet[i] = c) - 1

\* the bytes of a quantum of four characters: three, or two or one when it
\* ends with padding; ok: it is well formed
Quantum(q) ==
    LET a == Sextet(q[1])
        b == Sextet(q[2])
        c == Sextet(q[3])
        d == Sextet(q[4])
        b1 == a * 4 + b \div 16
        b2 == (b % 16) * 16 + c \div 4
        b3 == (c % 4) * 64 + d
    IN IF ~(InAlphabet(q[1]) /\ InAlphabet(q[2]))
       THEN [bytes |-> <<>>, ok |-> FALSE, padded |-> FALSE]
       ELSE IF q[3] = "="
       THEN [bytes |-> IF q[4] = "=" THEN <<b1>> ELSE <<>>, ok |-> q[4] = "=", padded |-> TRUE]
       ELSE IF ~InAlphabet(q[3]) THEN [bytes |-> <<>>, ok |-> FALSE, padded |-> FALSE]
       ELSE IF q[4] = "=" THEN [bytes |-> <<b1, b2>>, ok |-> TRUE, padded |-> TRUE]
       ELSE IF ~InAlphabet(q[4]) THEN [bytes |-> <<>>, ok |-> FALSE, padded |-> FALSE]
       ELSE [bytes |-> <<b1, b2, b3>>, ok |-> TRUE, padded |-> FALSE]

\* Encoding.Decode on a whole number of quanta: the bytes up to the first
\* error; padding is an error unless it ends the input
RECURSIVE Decode(_)
Decode(src) ==
    IF src = <<>> THEN [bytes |-> <<>>, ok |-> TRUE]
    ELSE LET q == Quantum(SubSeq(src, 1, 4))
             r == Decode(SubSeq(src, 5, Len(src)))
         IN IF ~q.ok \/ q.padded THEN [bytes |-> q.bytes, ok |-> q.ok /\ Len(src) = 4]
            ELSE [bytes |-> q.bytes \o r.bytes, ok |-> r.ok]

\* the base64 decoding of a string; it has one if it is well formed
WellFormed(src) == Len(src) % 4 = 0 /\ Decode(src).ok
Decoding(src) == Decode(src).bytes

\* the characters the decoder asks its source for to fill p of n bytes
ChunkSize(n) == IF (n \div 3) * 4 < 4 THEN 4 ELSE (n \div 3) * 4

\* what is left of the source when nr characters have been decoded
Reread(rest, nr) == rest
Unread(rest, nr) == SubSeq(rest, nr + 1, Len(rest))

\* Screenshot, lines 725-735: the string of the reply is wrapped in a decoder;
\* nothing is decoded yet
Screenshot(data, fails) ==
    LET s == SendReply(HandleReply(FailedReply))
    IN /\ panicked = "none"
       /\ cl' = [cl EXCEPT !.shot = IF fails THEN [NoShot EXCEPT !.err = s.err]
                                    ELSE [NoShot EXCEPT !.open = TRUE, !.src = data,
                                                        !.rest = data]]
       /\ UNCHANGED <<wd, haveQuitMu, fired, call, avail, panicked, net, ops, hist, rx>>

\* Read of the reader into p of n bytes: what is pending first, then the
\* error met before, else the next chunk of the source is decoded
ShotRead(n) ==
    LET r == cl.shot
        have == IF Len(r.rest) < ChunkSize(n) THEN Len(r.rest) ELSE ChunkSize(n)
        nr == (have \div 4) * 4
        dec == Decode(SubSeq(r.rest, 1, nr))
        k == IF Len(dec.bytes) < n THEN Len(dec.bytes) ELSE n
        m == IF Len(r.pend) < n THEN Len(r.pend) ELSE n
        end == IF r.rest = <<>> THEN "EOF" ELSE "unexpected EOF"
        bad == IF dec.ok THEN "" ELSE "corrupt"
    IN /\ panicked = "none"
       /\ r.open
       /\ cl' = [cl EXCEPT !.shot =
                    IF r.pend # <<>>
                    THEN [r EXCEPT !.got = @ \o SubSeq(r.pend, 1, m),
                                   !.pend = SubSeq(@, m + 1, Len(@)),
                                   !.n = m, !.rerr = ""]
                    ELSE IF r.end # "" THEN [r EXCEPT !.n = 0, !.rerr = r.end]
                    ELSE IF Len(r.rest) < 4
                    THEN [r EXCEPT !.end = end, !.n = 0, !.rerr = end]
                    ELSE [r EXCEPT !.got = @ \o SubSeq(dec.bytes, 1, k),
                                   !.pend = SubSeq(dec.bytes, k + 1, Len(dec.bytes)),
                                   !.rest = Unread(@, nr),
                                   !.end = bad, !.n = k, !.rerr = bad]]
       /\ UNCHANGED <<wd, haveQuitMu, fired, call, avail, panicked, net, ops, hist, rx>>

\* strings a server can send: well formed ones and others
Base64Strings ==
    {<<>>,
     <<"Q", "Q", "=", "=">>,
     <<"Q", "R", "=", "=">>,
     <<"Q", "U", "I", "=">>,
     <<"Q", "U", "J", "D">>,
     <<"/", "/", "/", "/">>,
     <<"Q", "U", "J", "D", "R", "A", "=", "=">>,
     <<"Q", "U", "J", "D", "R", "E", "V", "G">>,
     <<"Q", "U", "J", "D", "R", "E", "V", "G", "R", "0", "g", "=">>,
     <<"Q", "U", "J", "D", "R", "E", "V", "G", "R", "0", "h", "J">>,
     <<"Q", "U", "J", "D", "R", "E", "V", "G", "R", "0", "h", "J", "S", "g", "=", "=">>,
     <<"Q", "U", "J", "D", "R">>,
     <<"Q", "U", "J", "D", "R", "E", "V", "G", "R", "0", "*", "J">>,
     <<"Q", "*", "J", "D">>,
     <<"Q", "U", "J", "D", "=", "Q", "=", "=">>,
     <<"Q", "Q", "=", "=", "Q", "U", "J", "D">>}
ReadSizes == {1, 2, 3, 4, 6}

ShotNext ==
    \/ \E data \in Base64Strings, fails \in BOOLEAN : Screenshot(data, fails)
    \/ \E n \in ReadSizes : ShotRead(n)

ShotSpec == ElemInit /\ [][ShotNext]_vars

\* ------------------------------------------------------------------ claims
Frames(p) == {call[p][i] : i \in 1 .. Depth(p)}
\* goroutine p's call, of one of the functions fns, has returned to the user
Returned(p, fns) == ~Idle(p) /\ Bottom(p).fn \in fns /\ Bottom(p).pc = "done"
Commands == {"cmd", "NewSession"}

\* C1: Quit is idempotent.  A Quit call made after some Quit call has returned
\* (f.late), whether the user or the cancellation guard made it, never takes
\* the teardown path, sends no request and returns nil.
C1_QuitIdempotent ==
    \A p \in Procs :
        /\ \A f \in Frames(p) :
              f.fn = "Quit" /\ f.late =>
                  /\ f.pc \in {"lock", "done"}
                  /\ ~f.first /\ ~f.sent /\ f.err = ErrNil
        /\ ~Idle(p) /\ Bottom(p).gq # "none" /\ Bottom(p).glate =>
              Bottom(p).gq = "fast" /\ ~Bottom(p).gsent /\ Bottom(p).gerr = ErrNil

\* a second Quit has returned after the first one sent its delete and left the
\* session id in place (its delete failed)
C1_Witness ==
    \E p \in Procs :
        /\ Returned(p, {"Quit"}) /\ Bottom(p).late
        /\ net.del = 1 /\ wd.id # NoId

C3_CanceledBeforeSend ==
    \A p \in Procs :
        /\ Returned(p, Commands)
        /\ Bottom(p).seenFired /\ ~Bottom(p).seenQuit
        /\ ~hist.ctxRaced
        => /\ Bottom(p).err = ErrCanceled
           /\ ~Bottom(p).sent
           /\ net.del = 1

\* such a command has returned and it is its own guard that tore the session down
C3_Witness ==
    \E p \in Procs :
        /\ Returned(p, Commands)
        /\ Bottom(p).seenFired /\ ~Bottom(p).seenQuit /\ ~hist.ctxRaced
        /\ Bottom(p).gq = "first" /\ Bottom(p).gsent

\* C4 (the claim as stated): when the driver's token fires while a command's
\* own request is in flight, the command returns ErrCanceled whatever the
\* round trip produced, and its guard has called Quit.
C4_CanceledInFlight ==
    \A p \in Procs :
        Returned(p, Commands) /\ Bottom(p).inflightFire =>
            Bottom(p).err = ErrCanceled /\ Bottom(p).gq # "none"

\* C5: Quit cannot be cancelled.  With no SetContext in the middle of the
\* teardown, the execute of a Quit never finds the context done (no Quit frame
\* has a guarded execute above it), and the Quit that tears down, called by the
\* user or by a guard, has sent its delete and returns that request's outcome,
\* never ErrCanceled.
C5_QuitNotCanceled ==
    ~hist.ctxRaced =>
        \A p \in Procs :
            /\ \A i \in 1 .. Depth(p) - 1 :
                  call[p][i].fn = "Quit" => call[p][i + 1].pc # "guarded"
            /\ Returned(p, {"Quit"}) /\ Bottom(p).first =>
                  /\ Bottom(p).sent
                  /\ Bottom(p).err = Bottom(p).err0
                  /\ Bottom(p).err # ErrCanceled
            /\ ~Idle(p) /\ Bottom(p).gq = "first" =>
                  Bottom(p).gsent /\ Bottom(p).gerr # ErrCanceled

\* the user called Quit when the driver's token had fired; it sent the delete
\* and returned its outcome
C5_Witness ==
    \E p \in Procs :
        /\ Returned(p, {"Quit"}) /\ Bottom(p).first /\ Bottom(p).seenFired
        /\ Bottom(p).sent /\ ~hist.ctxRaced

\* C6 (the claim as stated): cancellation never aborts a request in flight:
\* no request that was sent ends with the transport's "context canceled".
C6_NeverAborted ==
    \A p \in Procs : \A f \in Frames(p) :
        f.fn = "execute" /\ f.sent => f.err0 # ErrCtxAborted

C8_IdFixed ==
    [][wd.id # NoId /\ wd'.id # wd.id => wd'.id = NoId]_vars

\* C8 (amended): the stored id starts empty and changes in two ways only: a
\* NewSession whose request succeeded stores the id of the reply envelope, and
\* the Quit that tears down clears it when its delete succeeded.
C8_IdChanges ==
    [][wd'.id # wd.id =>
          \E p \in Procs :
              /\ At(p, "execute", "post")
              /\ Top(p).err = ErrNil /\ Top(p).sent
              /\ \/ /\ call[p][Depth(p) - 1].fn = "NewSession"
                    /\ Top(p).buf = "env" /\ wd'.id = Top(p).sid
                 \/ /\ call[p][Depth(p) - 1].fn = "Quit"
                    /\ call[p][Depth(p) - 1].first /\ wd'.id = NoId]_vars

\* a NewSession made after the teardown has stored a new id
C8_Witness ==
    \E p \in Procs :
        /\ Returned(p, {"NewSession"}) /\ Bottom(p).seenQuit
        /\ Bottom(p).ret # NoId /\ wd.id = Bottom(p).ret

\* C9 (the claim as stated): NewSession works on a driver built as a struct
\* literal: it does not fail in the cancellation check, and when it returns
\* without error it returns the id of the reply envelope.
C9_NewSessionOnLiteral ==
    \A p \in Procs :
        ~Idle(p) /\ Bottom(p).fn = "NewSession" =>
            /\ ~(Bottom(p).pc = "panic" /\ panicked = "nil context")
            /\ Bottom(p).pc = "done" /\ Bottom(p).err = ErrNil =>
                  Bottom(p).ret = Bottom(p).sid

\* C10 (the claim as stated, for a Quit called after an earlier Quit returned):
\* when Quit returns, a delete for the session the driver held at the call has
\* been sent.
C10_TeardownAttempted ==
    \A p \in Procs :
        /\ Returned(p, {"Quit"}) /\ Bottom(p).late
        /\ Bottom(p).idAtCall # NoId
        => Bottom(p).idAtCall \in net.delFor

\* ---- claims about retries (Spec)
\* C19: no automatic retries.  Whatever its outcome, a call of execute hands
\* at most one request to the network, and so does every command, NewSession
\* and Quit, the teardown its cancellation guard triggers aside.
C19_NoRetries ==
    \A p \in Procs : \A f \in Frames(p) : f.nreq <= 1

\* a command whose request failed in transport has returned that error
C19_Witness ==
    \E p \in Procs :
        /\ Returned(p, Commands) /\ Bottom(p).err = ErrTransport
        /\ Bottom(p).nreq = 1

\* ---- claims about one command's reply (ReplySpec)
\* a command has got its reply (not a transport error) and has finished
Replied == rx.pc \in {"done", "panic"} /\ rx.rep # NoReply
\* the body of the reply decodes as a reply envelope
Envelope == rx.rep.body.form \in {"null", "object"}
\* the backend message a value carries: the errorMessage inside its message
Recovered(v) ==
    IF v.form = "object" /\ v.message.form = "json" /\ v.message.has
    THEN v.message.errorMessage ELSE ""
\* e is the protocol error of the Error Catalog for an envelope with this
\* status and value: <catalog message> - "<backend message>"
CatalogDecoded(e, status, v) ==
    /\ e.kind = "protocol"
    /\ e.text.tail /\ e.text.backend = Recovered(v)
    /\ IF status \in DOMAIN errorCodes
       THEN e.text.head = errorCodes[status] /\ e.text.num = NoNum
       ELSE e.text.head = "unknown error - " /\ e.text.num = status
\* the command failed with the error of execute and no value reached the caller
CommandFailed ==
    /\ rx.err # NoError /\ rx.buf = NilBuf
    /\ rx.res.err = rx.err /\ ~rx.res.has /\ ~rx.res.panic
\* execute ran the envelope of the reply through the Error Catalog
FailingEnvelope ==
    /\ Replied /\ Envelope
    /\ \/ rx.rep.code >= HTTPError
       \/ HasJSONPrefix(rx.rep.ctype) /\ rx.rep.body.Status # SUCCESS

\* C11: a reply with HTTP status >= 400 always makes the command fail, with no
\* value: with the Error Catalog decoding of the envelope when the body parses
\* as one, whatever the envelope's status (0 included), and with the "Bad
\* server reply status" error carrying the HTTP status otherwise.
C11_HTTPErrorFails ==
    Replied /\ rx.rep.code >= HTTPError =>
        /\ CommandFailed
        /\ IF Envelope
           THEN CatalogDecoded(rx.err, rx.rep.body.Status, rx.rep.body.Value)
           ELSE rx.err = Error("badstatus", ErrorText("Bad server reply status: ", rx.rep.code, FALSE, ""))

\* a void command got status 400 exactly with a JSON envelope of status 0
C11_Witness ==
    /\ Replied /\ rx.kind = "void" /\ rx.rep.code = HTTPError
    /\ rx.rep.ctype = jsonMIMEType
    /\ rx.rep.body.form = "object" /\ rx.rep.body.Status = SUCCESS
    /\ rx.res.err.kind = "protocol"

\* C12: for a reply with HTTP status < 400 whose Content-Type begins with
\* application/json and whose body is an envelope: a status other than 0
\* makes the command fail with the Error Catalog decoding; with status 0
\* execute returns the body unchanged and no error.
C12_JSONReply ==
    Replied /\ rx.rep.code < HTTPError /\ HasJSONPrefix(rx.rep.ctype) /\ Envelope =>
        IF rx.rep.body.Status # SUCCESS
        THEN CommandFailed /\ CatalogDecoded(rx.err, rx.rep.body.Status, rx.rep.body.Value)
        ELSE rx.buf = rx.rep.body /\ rx.err = NoError

\* a string query got a success envelope and its value reached the caller
C12_Witness ==
    /\ Replied /\ rx.kind = "string" /\ rx.rep.code < HTTPError
    /\ rx.rep.ctype = "application/json; charset=utf-8"
    /\ rx.rep.body.Status = SUCCESS /\ rx.buf = rx.rep.body
    /\ rx.res.has /\ rx.res.val = "v"

\* C13 (the claim as stated): a reply with HTTP status < 400 whose body is no
\* JSON, empty or not, sent without a JSON Content-Type, is an opaque
\* success: execute returns no error and a void command returns no error.
C13_OpaqueSuccess ==
    /\ Replied /\ rx.rep.code < HTTPError
    /\ rx.rep.body.form \in {"empty", "text"} /\ ~HasJSONPrefix(rx.rep.ctype)
    => /\ rx.err = NoError
       /\ rx.kind = "void" => rx.res.err = NoError

\* C14 (the claim as stated): whenever the body is an envelope whose status
\* is not 0, the command fails with the catalog-decoded protocol error and no
\* value reaches the caller, whatever the HTTP status and the Content-Type.
C14_FailingEnvelopeFails ==
    Replied /\ rx.rep.body.form = "object" /\ rx.rep.body.Status # SUCCESS =>
        /\ CatalogDecoded(rx.res.err, rx.rep.body.Status, rx.rep.body.Value)
        /\ ~rx.res.has

C17_ExactCatalogString ==
    FailingEnvelope /\ rx.kind = "void" /\ rx.rep.body.Status = 11 =>
        rx.res.err.text = ErrorText("element not visible", NoNum, FALSE, "")

\* C18: the two-level decode of the backend message is tolerant.  When the
\* value of a failing envelope does not decode as {message}, or the message is
\* absent, empty or no JSON, or the inner JSON has no errorMessage, the
\* command still fails with the catalog's protocol error for the envelope's
\* status, with an empty backend message.
C18_TolerantDecode ==
    /\ FailingEnvelope
    /\ ~(rx.rep.body.Value.form = "object" /\ rx.rep.body.Value.message.form = "json"
         /\ rx.rep.body.Value.message.has)
    => /\ CommandFailed
       /\ CatalogDecoded(rx.err, rx.rep.body.Status, rx.rep.body.Value)
       /\ rx.err.text.backend = ""

\* the message of the value was text that is no JSON
C18_Witness ==
    /\ FailingEnvelope /\ rx.rep.body.Value.form = "object"
    /\ rx.rep.body.Value.message.form = "text"
    /\ rx.res.err.kind = "protocol" /\ rx.res.err.text.backend = ""

\* C20: every request execute sends carries Accept: application/json, and it
\* carries Content-Type: application/json exactly when its method is POST;
\* GET and DELETE requests never carry it.
C20_Headers ==
    rx.pc # "idle" =>
        /\ <<"Accept", "application/json">> \in rx.hdr
        /\ <<"Content-Type", "application/json">> \in rx.hdr <=> rx.method = "POST"
        /\ rx.method \in {"GET", "POST", "DELETE"}

\* a DELETE request is in flight
C20_Witness ==
    /\ rx.pc = "wait" /\ rx.method = "DELETE"
    /\ rx.hdr = {<<"Accept", "application/json">>}

\* ---- claims about redirects (RedirectSpec)
\* the redirect responses the command's request has been answered with
Redirects == Len(rx.hops) + (IF rx.err = StoppedError THEN 1 ELSE 0)

\* C21 (the claim as stated): a chain of up to 10 redirects is followed to
\* its end: a request fails with the redirect error only when it has been
\* answered with more than 10 redirects.
C21_TenFollowed ==
    rx.pc = "done" /\ rx.err = StoppedError => Redirects > 10

\* C22: every redirected request that is sent, at every hop, carries
\* Accept: application/json.
C22_AcceptOnEveryHop ==
    \A i \in 1 .. Len(rx.hops) : <<"Accept", "application/json">> \in rx.hops[i]

\* nine redirects were followed, the first into a request that got no header
\* from the original one, and the final response was classified
C22_Witness ==
    /\ rx.pc = "done" /\ Len(rx.hops) = 9 /\ rx.rep # NoReply
    /\ rx.hops[1] = {<<"Accept", "application/json">>}
    /\ rx.method = "POST" /\ rx.hops[9] = rx.hdr

\* ------------------------------------- claims about element handles (ElemSpec)
LastFind == cl.last.cmd \in {"element", "elements", "active"}
LastValue == cl.last.rep.body.Value
FindReturned == LastFind /\ cl.last.err = NoError /\ ~cl.last.panic
IsRef(v) == v.form = "object" /\ v.ref.form = "string"
IsRefs(v) == v.form = "array" /\ \A i \in 1 .. Len(v.items) : IsRef(v.items[i])

\* C23: a successful find-element reply {ELEMENT: id} yields one handle with
\* that id, owned by the driver that sent the find; a successful find-elements
\* reply yields one handle per reference, as many and in the same order as the
\* server's sequence, all owned by that driver; for the finds of a driver and
\* for the finds of a handle alike.
C23_ElementDecoding ==
    /\ FindReturned /\ cl.last.cmd = "element" /\ IsRef(LastValue)
          => /\ Len(cl.last.handles) = 1
             /\ cl.last.handles[1].id = LastValue.ref.id
             /\ cl.last.handles[1].parent = cl.last.by
    /\ FindReturned /\ cl.last.cmd = "elements" /\ IsRefs(LastValue)
          => /\ Len(cl.last.handles) = Len(LastValue.items)
             /\ \A i \in 1 .. Len(LastValue.items) :
                   /\ cl.last.handles[i].id = LastValue.items[i].ref.id
                   /\ cl.last.handles[i].parent = cl.last.by
    /\ LastFind /\ cl.last.h # NoHandle => cl.last.by = cl.last.h.parent

\* a nested find-elements through a handle of wd2 got <<e2, e1>> in that order
C23_Witness ==
    /\ FindReturned /\ cl.last.cmd = "elements"
    /\ cl.last.h # NoHandle /\ cl.last.h.parent = "wd2"
    /\ LastValue = ArrayValue(<<RefValue("e2"), RefValue("e1")>>)
    /\ cl.last.handles[1].id = "e2" /\ cl.last.handles[2].id = "e1"
    /\ cl.last.handles[2].parent = "wd2"

LastElemCommand == cl.last.h # NoHandle

\* C24 as stated: every command sent through a handle goes to a URL that
\* contains the handle's id and the id of the session the handle was issued
\* under.
C24_IssuedSession ==
    LastElemCommand =>
        /\ cl.last.url.elem = cl.last.h.id
        /\ cl.last.url.session = cl.last.h.issued

\* C24, amended: the URL holds the session id its owning driver has when the
\* command is sent, and the handle's id, except that MoveTo sends the handle's
\* id in the parameters.
C24_CurrentSession ==
    LastElemCommand =>
        /\ cl.last.url.session = cl.id[cl.last.h.parent]
        /\ cl.last.cmd # "moveto" => cl.last.url.elem = cl.last.h.id
        /\ cl.last.cmd = "moveto" => cl.last.url.elem = "" /\ cl.last.params.element = cl.last.h.id

\* a click through a handle found under session 1 goes to session 2
C24_Witness ==
    /\ cl.last.cmd = "click" /\ cl.last.h.issued = 1 /\ cl.last.url.session = 2
    /\ cl.last.url.elem = cl.last.h.id /\ cl.last.h.id = "e1"

\* C26: a find or active-element command that gets a success envelope whose
\* value is not an element reference (not a sequence of them, for the plural)
\* returns a decode error and the process goes on.
Malformed ==
    /\ LastFind
    /\ HasJSONPrefix(cl.last.rep.ctype) /\ cl.last.rep.code = HTTPOk
    /\ cl.last.rep.body.form = "object" /\ cl.last.rep.body.Status = SUCCESS
    /\ IF cl.last.cmd = "elements" THEN ~IsRefs(LastValue) ELSE ~IsRef(LastValue)
C26_MalformedIsDecodeError ==
    Malformed => cl.last.err = DecodeError /\ ~cl.last.panic /\ panicked = "none"

\* ------------------------------------ claims about script arguments (ScriptSpec)
LastScript == cl.last.cmd \in {"execute", "execute_async"}

\* what the claim expects on the wire for an argument
RECURSIVE Expected(_)
Expected(arg) ==
    CASE arg.t = "handle" -> WireRef(arg.id)
      [] arg.t = "list" -> ListArg([i \in 1 .. Len(arg.items) |-> Expected(arg.items[i])])
      [] OTHER -> arg

\* C25: in the parameters of ExecuteScript and ExecuteScriptAsync every handle
\* in the arguments, at the top level or nested inside an argument, is sent as
\* {ELEMENT: id}, and every other argument is sent unchanged in its position.
C25_HandlesSubstituted ==
    LastScript =>
        /\ Len(cl.last.params.args) = Len(cl.last.args)
        /\ \A i \in 1 .. Len(cl.last.args) : cl.last.params.args[i] = Expected(cl.last.args[i])

\* ---------------------------------- claims about decoding a value (DecodeSpec)
LastValueCommand == cl.last.cmd \in ValueCmds
SuccessEnvelope ==
    /\ cl.last.rep.code = HTTPOk
    /\ cl.last.rep.body.form = "object" /\ cl.last.rep.body.Status = SUCCESS

\* C27: a value-returning command returns an error that is not a protocol
\* error when the body of the reply is not JSON or the value of the envelope
\* does not decode into the expected shape; it does not return success.
C27_DecodeErrorsSurfaced ==
    /\ LastValueCommand
    /\ \/ cl.last.rep.body.form = "text"
       \/ SuccessEnvelope /\ ~Decodes(Shape(cl.last.cmd), LastValue)
    => cl.last.err = DecodeError

\* GetCookies returned the cookies of a success envelope whose value is a
\* sequence of objects
GotCookies ==
    /\ cl.last.cmd = "GetCookies" /\ SuccessEnvelope /\ HasJSONPrefix(cl.last.rep.ctype)
    /\ LastValue.form = "array"
    /\ \A i \in 1 .. Len(LastValue.items) : LastValue.items[i].form = "object"
Numeric(e) == e.form \in {"number", "numeric string"}
SecondaryFails == \E j \in 1 .. Len(LastValue.items) : LastValue.items[j].expiry.form \in {"string", "bool"}

\* C28 as stated: at every position of a successful GetCookies reply the
\* cookie's expiry is the floor of the expiry number of the object at that
\* position of the raw value.
C28_ExpiryPatched ==
    GotCookies /\ cl.last.err = NoError =>
        \A i \in 1 .. Len(LastValue.items) :
            LastValue.items[i].expiry.form = "number"
                => cl.last.res.cookies[i].Expiry = LastValue.items[i].expiry.tenths \div 10

\* C28, amended: when every expiry of the raw value is absent, null, a number
\* that is not negative or a string with such a number, the cookie at each
\* position has the floor of the expiry at that position, 0 for an absent or
\* null one; when some expiry is anything else, every cookie has expiry 0.
C28_ExpiryPatchedWhenParsed ==
    GotCookies /\ cl.last.err = NoError =>
        \A i \in 1 .. Len(LastValue.items) :
            cl.last.res.cookies[i].Expiry =
                IF ~SecondaryFails /\ Numeric(LastValue.items[i].expiry)
                THEN LastValue.items[i].expiry.tenths \div 10 ELSE 0

\* two cookies with the expiries 1.5 and "3" come back with 1 and 3
C28_Witness ==
    /\ GotCookies /\ cl.last.err = NoError
    /\ LastValue = ArrayValue(<<CookieValue("a", [form |-> "number", tenths |-> 15]),
                                CookieValue("b", [form |-> "numeric string", tenths |-> 30])>>)
    /\ cl.last.res.cookies = <<Cookie("a", 1), Cookie("b", 3)>>

\* C29: when the secondary parse fails, or the expiry of a cookie is absent or
\* not numeric, GetCookies returns no error and does not panic; it returns
\* every cookie of the primary decode with its other fields, and the expiry of
\* the cookie is 0.
C29_ExpiryFailureTolerated ==
    GotCookies =>
        /\ cl.last.err = NoError /\ ~cl.last.panic /\ panicked = "none"
        /\ Len(cl.last.res.cookies) = Len(LastValue.items)
        /\ \A i \in 1 .. Len(LastValue.items) :
              /\ cl.last.res.cookies[i].name = LastValue.items[i].name
              /\ SecondaryFails \/ ~Numeric(LastValue.items[i].expiry)
                    => cl.last.res.cookies[i].Expiry = 0

\* a cookie with the expiry 2 and one with the expiry true: both come back,
\* with expiry 0
C29_Witness ==
    /\ GotCookies /\ cl.last.err = NoError
    /\ LastValue = ArrayValue(<<CookieValue("a", [form |-> "number", tenths |-> 20]),
                                CookieValue("b", [form |-> "bool", tenths |-> 0])>>)
    /\ cl.last.res.cookies = <<Cookie("a", 0), Cookie("b", 0)>>

\* --------------------------------- claims about the window size (WindowSpec)
\* C30: on an active session a ResizeWindow(name, size) that succeeds,
\* followed with no command in between by a WindowSize(name) of the same
\* driver for the same window, makes WindowSize return that size; both send to
\* the same resource, and the empty name is the current window in both.
C30_WindowSizeRoundTrip ==
    /\ cl.last.cmd = "WindowSize" /\ cl.last.err = NoError
    /\ cl.prev # NoResize /\ cl.prev.by = cl.last.by
    /\ cl.id[cl.last.by] # NoId
    /\ Resolve(cl.prev.url.elem) = Resolve(cl.last.url.elem)
    => /\ cl.last.res.has /\ cl.last.res.size = cl.prev.to
       /\ cl.last.url.session = cl.prev.url.session
       /\ cl.last.url.path = cl.prev.url.path
       /\ cl.last.args[1] = "" => cl.last.url.elem = "current"

\* ResizeWindow("", {400, 400}) and then WindowSize("") returning {400, 400}
C30_Witness ==
    /\ cl.last.cmd = "WindowSize" /\ cl.last.err = NoError /\ cl.last.args = <<"">>
    /\ cl.prev # NoResize /\ cl.prev.by = cl.last.by /\ cl.prev.url = cl.last.url
    /\ cl.prev.url.elem = "current" /\ cl.prev.to = Size(400, 400)
    /\ cl.last.res.size = Size(400, 400)

\* ------------------------------------------- claims about the teardown (Spec)
\* goroutine p is in a Quit that waits for the lock p holds itself: the delete
\* of p's Quit was handed to the network and has completed, the check that
\* execute defers found wd.ctx done and called Quit again
SelfBlocked(p) ==
    /\ At(p, "Quit", "lock") /\ haveQuitMu = p
    /\ call[p][Depth(p) - 1].fn = "execute" /\ call[p][Depth(p) - 1].kind = "DELETE"
    /\ call[p][Depth(p) - 1].sent

\* C35: in every interleaving of Quit with SetContext, cancellation and
\* commands, a Quit whose delete request completes returns and releases the
\* lock; it never waits for its own lock through the cancellation guard of its
\* own delete request.
C35_QuitNeverSelfBlocks == \A p \in Procs : ~SelfBlocked(p)

\* the delete of p's Quit has failed and its execute is about to return
QuitFailing(p) ==
    /\ At(p, "execute", "post")
    /\ call[p][Depth(p) - 1].fn = "Quit"
    /\ Top(p).err0 # ErrNil

\* C36: when the delete request of the first Quit fails, Quit returns that
\* error and leaves the stored session id as it is; the quit flag stays set,
\* and no later Quit sends a delete.
C36_FailedQuit ==
    [][/\ wd.haveQuit => wd'.haveQuit
       /\ net'.del <= 1
       /\ \A p \in Procs :
            QuitFailing(p) /\ Len(call'[p]) < Len(call[p])
                => /\ wd'.id = wd.id
                   /\ wd'.haveQuit
                   /\ net' = net
                   /\ IF Depth(p) = 2
                      THEN call'[p][1].err = Top(p).err0
                      ELSE call'[p][1].gerr = Top(p).err0]_vars

\* the first Quit returned the transport error of its delete, the session id
\* is still stored, and a Quit called later returned without sending
C36_Witness ==
    \E p, q \in Procs :
        /\ Returned(p, {"Quit"}) /\ Bottom(p).first /\ Bottom(p).sent
        /\ Bottom(p).err = ErrTransport
        /\ Returned(q, {"Quit"}) /\ ~Bottom(q).first /\ Bottom(q).late
        /\ wd.id # NoId /\ wd.haveQuit /\ net.del = 1

\* a delete request that has not completed
DeleteUnderWay ==
    \E p \in Procs : \E i \in 1 .. Depth(p) :
        call[p][i].fn = "execute" /\ call[p][i].kind = "DELETE"

\* C37: a Quit that finds the teardown issued by a concurrent Quit does not
\* return before the delete request of that teardown has completed: when any
\* Quit has returned, no delete request is under way.
C37_QuitWaitsForDelete == hist.quitReturned => ~DeleteUnderWay

\* a Quit called while the teardown of another was going on has returned
\* without sending, after the one delete
C37_Witness ==
    \E p \in Procs :
        /\ Returned(p, {"Quit"}) /\ ~Bottom(p).first /\ ~Bottom(p).late
        /\ Bottom(p).seenQuit
        /\ net.del = 1 /\ ~DeleteUnderWay

\* ------------------------------ claims about a reply without a body (DecodeSpec)
\* C38: a value-returning command that receives an HTTP status below 400 with
\* an empty body returns to its caller, with a zero value or an error; the
\* process does not panic on the missing envelope.
C38_EmptyBodyTolerated ==
    /\ LastValueCommand
    /\ cl.last.rep.code < HTTPError /\ cl.last.rep.body.form = "empty"
    => ~cl.last.panic /\ panicked = "none"

\* ---------------------------------- claims about running a script (ScriptSpec)
\* C31: ExecuteScript posts the script with the arguments in the order given,
\* an absent argument list as an empty list, and returns the value of the
\* success envelope decoded generically: a number as a number, as the 3 that
\* "return arguments[0] + arguments[1]" gives with [1, 2].
C31_ScriptRoundTrip ==
    LastScript =>
        /\ ~cl.last.params.nullArgs
        /\ Len(cl.last.params.args) = Len(cl.last.args)
        /\ \A i \in 1 .. Len(cl.last.args) :
              /\ cl.last.args[i].t = "scalar" => cl.last.params.args[i] = cl.last.args[i]
              /\ cl.last.args[i].t = "handle" => cl.last.params.args[i] = WireRef(cl.last.args[i].id)
              /\ cl.last.args[i].t = "list"
                    => /\ cl.last.params.args[i].t = "list"
                       /\ Len(cl.last.params.args[i].items) = Len(cl.last.args[i].items)
        /\ SuccessEnvelope /\ HasJSONPrefix(cl.last.rep.ctype) /\ LastValue.form # "missing"
              => /\ cl.last.err = NoError /\ ~cl.last.panic
                 /\ LastValue.form = "number"
                       => cl.last.res.any.t = "float64" /\ cl.last.res.any.num = LastValue.num
                 /\ LastValue.form = "string"
                       => cl.last.res.any.t = "string" /\ cl.last.res.any.str = LastValue.str
                 /\ LastValue.form = "null" => cl.last.res.any = NoAny

\* a script with two arguments, a scalar and then a handle, returned 3
C31_Witness ==
    /\ cl.last.cmd = "execute"
    /\ cl.last.args = <<Scalar("x"), HandleArg("e1")>>
    /\ cl.last.params.args = <<Scalar("x"), WireRef("e1")>>
    /\ cl.last.rep.body.Value = NumberValue(3)
    /\ cl.last.res.any = [t |-> "float64", num |-> 3, str |-> ""]
    /\ cl.last.err = NoError

\* ------------------------------------ claims about the URL of a command (UrlSpec)
\* C40: every command of the driver that is sent to the session goes to the
\* executor's URL followed by "/session/" and the driver's current session id
C40_SessionScopedURL ==
    cl.last.text # <<>> =>
        /\ Len(cl.last.text) >= 3
        /\ cl.last.text[1] = Executor[cl.last.by]
        /\ cl.last.text[2] = "/session/"
        /\ cl.last.text[3] = cl.id[cl.last.by]

\* ------------------------------------- claims about several drivers (DriverSpec)
\* C39: only the context installed with SetContext cancels: a call returns
\* ErrCanceled, or its guard tears the session down, only if the context the
\* driver held when the call was made is done, whatever the context passed to
\* the call (to a command, to Quit or to NewRemote); and it returns ErrCanceled
\* only once SetContext has been called on the driver
C39_OnlyInstalledTokenCancels ==
    \A d \in Drivers :
        LET w == cl.dr[d]
        IN /\ w.cur.err = ErrCanceled => Done(w.cur.tok) /\ w.set
           /\ w.cur.tore => Done(w.cur.tok) /\ w.set
           /\ w.cur.fn = "NewRemote" => w.cur.err # ErrCanceled /\ ~w.haveQuit

\* a command called with a context that is done has returned without an error
\* on a driver on which SetContext was never called and Quit has not run
C39_Witness ==
    \E d \in Drivers :
        LET w == cl.dr[d]
        IN /\ w.cur.fn = "Title" /\ w.cur.pc = "done"
           /\ Done(w.cur.arg) /\ ~Done(w.cur.tok)
           /\ w.cur.err = ErrNil /\ ~w.set /\ ~w.haveQuit /\ cl.id[d] # NoId

\* C33: a step of a call on one driver leaves the session id, the quit flag
\* and the context of every other driver as they are, and the request it
\* sends goes to the driver's own executor and, if it names a session, to the
\* driver's own
C33_DriversIndependent ==
    [][ /\ \A e \in Drivers \ {cl'.by} :
              /\ cl'.id[e] = cl.id[e]
              /\ cl'.dr[e].haveQuit = cl.dr[e].haveQuit
              /\ cl'.dr[e].ctx = cl.dr[e].ctx
        /\ cl'.by \in Drivers =>
              LET req == cl'.dr[cl'.by].cur.req
              IN req # <<>> /\ req # cl.dr[cl'.by].cur.req =>
                    /\ req[1] = Executor[cl'.by]
                    /\ Len(req) >= 3 => req[3] = cl.id[cl'.by]
      ]_vars

\* both drivers have a session of their own and a call in progress: a command
\* of one and the Quit of the other
C33_Witness ==
    /\ cl.dr["wd1"].cur.pc = "sent" /\ cl.dr["wd1"].cur.fn = "Title"
    /\ cl.dr["wd2"].cur.pc = "quitting"
    /\ cl.id["wd1"] # NoId /\ cl.id["wd2"] # NoId /\ cl.id["wd1"] # cl.id["wd2"]
    /\ cl.dr["wd1"].ctx # cl.dr["wd2"].ctx

\* ----------------------------- claims about the order of the requests (OrderSpec)
Position(k, seq) == CHOOSE i \in 1 .. Len(seq) : seq[i] = k
OrdReturned == 1 .. Len(cl.ord.ret)
Completed == {k \in OrdReturned : cl.ord.ret[k].ok}

IsPrefix(a, b) == Len(a) <= Len(b) /\ a = SubSeq(b, 1, Len(a))

\* C34: Screenshot decodes nothing itself; the bytes read from its reader, in
\* reads of any sizes, are the base64 decoding of the reply's string from its
\* start, every byte once; the reader reports the end when all of them have
\* been delivered, and has nothing more to deliver then
C34_ScreenshotStream ==
    LET r == cl.shot
    IN r.open /\ WellFormed(r.src) =>
          /\ IsPrefix(r.got \o r.pend, Decoding(r.src))
          /\ Decoding(r.src) = r.got \o r.pend \o Decoding(r.rest)
          /\ r.end \in {"", "EOF"}
          /\ r.end = "EOF" => r.got = Decoding(r.src) /\ r.pend = <<>> /\ r.rest = <<>>
          /\ r.rerr \in {"", "EOF"}
          /\ r.rerr = "EOF" => r.n = 0 /\ r.end = "EOF"
          /\ r.rerr = "" /\ r.got # <<>> => r.n > 0

\* the reader of "QUJDREVGR0g=" has delivered the eight bytes of "ABCDEFGH"
\* and reported the end
C34_Witness ==
    /\ cl.shot.open
    /\ cl.shot.src = <<"Q", "U", "J", "D", "R", "E", "V", "G", "R", "0", "g", "=">>
    /\ cl.shot.got = <<65, 66, 67, 68, 69, 70, 71, 72>>
    /\ cl.shot.end = "EOF" /\ cl.shot.rerr = "EOF" /\ cl.shot.n = 0

====
